---------------------------- MODULE Spec2Model ----------------------------
(***************************************************************************)
(* A model of the myID identity core of eidorb/openmyid (src/myid.py):     *)
(* the Identity key export/import, the decoding of the PKCS#7 certificate  *)
(* chain of a CertificateResponse, the certificate signing request and the *)
(* minting of the two RFC 7523 JWT assertions; and of the new identity     *)
(* wizard of the Textual app (src/openmyid.py), which drives the issuance  *)
(* of a certificate and stores the identity, with the IdentityStore and    *)
(* the buttons of the InitialScreen and of the wizard's screens.           *)
(*                                                                         *)
(* Text is a sequence of one-character strings, bytes are a sequence of    *)
(* numbers in 0..255.  Cryptography is symbolic: a ciphertext opens only   *)
(* under the password it was made with, a digest is a short checksum, a    *)
(* signature names the key, the algorithm and the signed content, and      *)
(* uuid4 never repeats a value.                                            *)
(***************************************************************************)
EXTENDS Integers, Sequences, FiniteSets, TLC

VARIABLES
    key,          \* Identity.key of the identity under test
    exported,     \* what the last export_key call produced (blob or error)
    exportPw,     \* the password argument of that call
    blob,         \* the bytes handed to from_exported_key (possibly corrupted)
    corrupted,    \* TRUE when blob was altered after the export
    imported,     \* what the last from_exported_key call produced
    p7,           \* CertificateResponse.p7
    sent,         \* the certificates the issuer put in the envelope behind p7
    decoded,      \* what the last decode_certificate_chain call produced
    now,          \* the wall clock, in ticks
    uuidsDrawn,   \* how many values uuid4 has handed out
    grant,        \* the last create_authorization_grant call and its token
    clientAuth,   \* the last create_client_authentication call and its token
    jtiLog,       \* the jti of every assertion returned so far, in order
    csrLog,       \* every create_csr call so far: the key and the request
    pc,           \* where each run of action_create_new_identity stands
    locals,       \* the local variables of each run
    outcome,      \* how each run ended
    path,         \* the issuance states each run has passed through
    calls,        \* every call made to a collaborator so far, in order
    loading,      \* InitialScreen.loading
    store,        \* the rows of the identity table of the IdentityStore
    select,       \* InitialScreen.identity_select: its options and value
    service,      \* what the myID service answers in this run
    inserted,     \* the last IdentityStore.insert call and how it ended
    answer,       \* the last query of the IdentityStore and what it returned
    password_input, \* the value of the password Input of the InitialScreen
    sign_in_button, \* InitialScreen.sign_in_button
    details,      \* the PersonalDetailsScreen of each run: inputs and button
    pressed       \* the buttons that dismissed the screens of each run

vars == <<key, exported, exportPw, blob, corrupted, imported, p7, sent,
          decoded, now, uuidsDrawn, grant, clientAuth, jtiLog, csrLog,
          pc, locals, outcome, path, calls, loading, store, select, service,
          inserted, answer, password_input, sign_in_button, details, pressed>>

keyVars == <<key, exported, exportPw, blob, corrupted, imported>>
chainVars == <<p7, sent, decoded>>
mintVars == <<now, uuidsDrawn, grant, clientAuth, jtiLog>>
csrVars == <<csrLog>>
wizVars == <<pc, locals, outcome, path, calls, loading, store, select, service>>
storeVars == <<inserted, answer>>
screenVars == <<password_input, sign_in_button, details, pressed>>

None == [kind |-> "None"]

\* Select.BLANK, the value of a Select that shows no option
BLANK == "Select.BLANK"

\* the runs of action_create_new_identity that are told apart
Attempts == {1, 2}

---------------------------------------------------------------------------
(* Bounds of the model. *)

MaxKeys == 2         \* key pairs rsa.generate_private_key can hand out
MaxChain == 3        \* certificates in one envelope
MaxTime == 3         \* last clock tick
MaxClockStep == 1    \* ticks that can pass between two reads of the clock
MaxUuids == 2        \* uuid4 calls in one run
TicksPerSecond == 2  \* resolution of the clock below one second

---------------------------------------------------------------------------
(* Text and bytes. *)

RECURSIVE SeqSum(_)
SeqSum(s) == IF s = <<>> THEN 0 ELSE Head(s) + SeqSum(Tail(s))

IndexOf(table, c) == IF \E i \in 1..Len(table) : table[i] = c
                      THEN CHOOSE i \in 1..Len(table) : table[i] = c
                      ELSE 0

LowerLetters == <<"a","b","c","d","e","f","g","h","i","j","k","l","m",
                  "n","o","p","q","r","s","t","u","v","w","x","y","z">>
UpperLetters == <<"A","B","C","D","E","F","G","H","I","J","K","L","M",
                  "N","O","P","Q","R","S","T","U","V","W","X","Y","Z">>
Digits == <<"0","1","2","3","4","5","6","7","8","9">>

\* Faulty variant of StrUpper: the text is left in lowercase.
StrUpperLowercaseKept(s) == s
\* str.upper()
StrUpper(s) == [i \in 1..Len(s) |->
                  IF IndexOf(LowerLetters, s[i]) # 0
                  THEN UpperLetters[IndexOf(LowerLetters, s[i])]
                  ELSE s[i]]

\* bytes.hex(): two lowercase hexadecimal digits per byte
HexDigits == Digits \o SubSeq(LowerLetters, 1, 6)
RECURSIVE BytesHex(_)
BytesHex(b) == IF b = <<>> THEN <<>>
               ELSE <<HexDigits[(Head(b) \div 16) + 1], HexDigits[(Head(b) % 16) + 1]>>
                    \o BytesHex(Tail(b))

\* str(int) of a non-negative integer, as f"{certificate.serial_number}" renders it
RECURSIVE IntStr(_)
IntStr(n) == IF n < 10 THEN <<Digits[n + 1]>>
             ELSE IntStr(n \div 10) \o <<Digits[(n % 10) + 1]>>

\* base64.standard_b64encode
B64Alphabet == UpperLetters \o LowerLetters \o Digits \o <<"+", "/">>
B64Char(n) == B64Alphabet[n + 1]
RECURSIVE standard_b64encode(_)
standard_b64encode(b) ==
    IF b = <<>> THEN <<>>
    ELSE IF Len(b) = 1
    THEN <<B64Char(b[1] \div 4), B64Char((b[1] % 4) * 16), "=", "=">>
    ELSE IF Len(b) = 2
    THEN <<B64Char(b[1] \div 4), B64Char((b[1] % 4) * 16 + (b[2] \div 16)),
           B64Char((b[2] % 16) * 4), "=">>
    ELSE <<B64Char(b[1] \div 4), B64Char((b[1] % 4) * 16 + (b[2] \div 16)),
           B64Char((b[2] % 16) * 4 + (b[3] \div 64)), B64Char(b[3] % 64)>>
         \o standard_b64encode(SubSeq(b, 4, Len(b)))

\* base64.standard_b64decode, which is binascii.a2b_base64 without strict mode:
\* a character outside the alphabet is skipped, a complete padding ends the
\* input, and data left in an unfinished quad is the error binascii.Error.
\* q is the position in the quad, left the bits carried, pads the padding seen.
RECURSIVE a2b_base64(_, _, _, _, _, _)
a2b_base64(s, i, q, left, pads, out) ==
    IF i > Len(s)
    THEN IF q # 0 THEN [kind |-> "Error", error |-> "binascii.Error"]
                  ELSE [kind |-> "Ok", bytes |-> out]
    ELSE IF s[i] = "="
    THEN IF q >= 2 /\ q + pads + 1 >= 4
         THEN [kind |-> "Ok", bytes |-> out]
         ELSE a2b_base64(s, i + 1, q, left, IF q >= 2 THEN pads + 1 ELSE pads, out)
    ELSE IF IndexOf(B64Alphabet, s[i]) = 0
    THEN a2b_base64(s, i + 1, q, left, pads, out)
    ELSE LET c == IndexOf(B64Alphabet, s[i]) - 1 IN
         CASE q = 0 -> a2b_base64(s, i + 1, 1, c, 0, out)
           [] q = 1 -> a2b_base64(s, i + 1, 2, c % 16, 0,
                                  Append(out, left * 4 + (c \div 16)))
           [] q = 2 -> a2b_base64(s, i + 1, 3, c % 4, 0,
                                  Append(out, left * 16 + (c \div 4)))
           [] q = 3 -> a2b_base64(s, i + 1, 0, 0, 0,
                                  Append(out, left * 64 + c))
standard_b64decode(s) == a2b_base64(s, 1, 0, 0, 0, <<>>)

---------------------------------------------------------------------------
(* Identity: the key pair, export_key and from_exported_key.               *)

\* the longest password, in bytes, the serialisation backend accepts
MaxPasswordBytes == 1023
\* stands for a password of MaxPasswordBytes + 1 bytes
LongPassword == "a password one byte too long"
Passwords == {"", "hunter2", "secret password", LongPassword}
\* len(password)
PasswordBytes(password) ==
    IF password = LongPassword THEN MaxPasswordBytes + 1 ELSE Len(password)
Ivs == {1, 2}
PublicExponent == 65537
KeySize == 2048

\* rsa.generate_private_key(public_exponent=65537, key_size=2048): k names the
\* primes the generator drew
RSAPrivateKey(k) ==
    [kty |-> "RSA", id |-> k, e |-> PublicExponent, bits |-> KeySize]

public_key(k) == [kty |-> k.kty, n |-> k.id, e |-> k.e, bits |-> k.bits]

\* the DER bytes of the private key, and their parse
DerPrivateKey(k) == <<48, 3, 2, 1, k.id>>
ParsePrivateKey(label, der) ==
    IF Len(der) = 5 /\ der[1] = 48 /\ der[2] = 3 /\ der[3] = 2 /\ der[4] = 1
    THEN [kind |-> "Ok",
          key |-> [kty |-> IF label = "RSA PRIVATE KEY" THEN "RSA" ELSE "EC",
                   id |-> der[5], e |-> PublicExponent, bits |-> KeySize]]
    ELSE [kind |-> "Error", error |-> "ValueError"]

\* The cipher of the PEM container: the ciphertext opens under the password
\* and IV that sealed it, and under nothing else.
Encrypt(password, iv, plain) ==
    [sealedWith |-> <<password, iv>>, plain |-> plain, damaged |-> FALSE]
Decrypt(password, iv, body) ==
    IF body.sealedWith = <<password, iv>> /\ ~body.damaged
    THEN [kind |-> "Ok", plain |-> body.plain]
    ELSE [kind |-> "Error", error |-> "ValueError"]

\* Faulty variant of export_key: the password is not looked at.
export_keyAnyPassword(k, password, iv) ==
    [kind |-> "Ok",
     blob |-> [label |-> "RSA PRIVATE KEY",
               procType |-> "4,ENCRYPTED",
               dekInfo |-> [cipher |-> "AES-256-CBC", iv |-> iv],
               body |-> Encrypt(password, iv, DerPrivateKey(k)),
               framed |-> TRUE]]

\* Identity.export_key: private_bytes(PEM, TraditionalOpenSSL,
\* BestAvailableEncryption(password)); iv is the random IV of this call.
\* BestAvailableEncryption refuses an empty password ("Password must be 1 or
\* more bytes."), private_bytes one of more than 1023 bytes ("Passwords
\* longer than 1023 bytes are not supported by this backend").
export_key(k, password, iv) ==
    IF PasswordBytes(password) = 0 \/ PasswordBytes(password) > MaxPasswordBytes
    THEN [kind |-> "Error", error |-> "ValueError"]
    ELSE [kind |-> "Ok",
          blob |-> [label |-> "RSA PRIVATE KEY",
                    procType |-> "4,ENCRYPTED",
                    dekInfo |-> [cipher |-> "AES-256-CBC", iv |-> iv],
                    body |-> Encrypt(password, iv, DerPrivateKey(k)),
                    framed |-> TRUE]]

\* Faulty variant of load_pem_private_key: the password is not checked.
load_pem_private_keyAnyPassword(data, password) ==
    IF ~data.framed THEN [kind |-> "Error", error |-> "ValueError"]
    ELSE ParsePrivateKey(data.label, data.body.plain)

\* serialization.load_pem_private_key(data, password).  An unreadable PEM frame
\* is a ValueError; an encrypted key asked for with an empty password is the
\* TypeError "Password was not given but private key is encrypted"; a failed
\* decryption or parse is a ValueError.
load_pem_private_key(data, password) ==
    IF ~data.framed THEN [kind |-> "Error", error |-> "ValueError"]
    ELSE IF data.procType = "4,ENCRYPTED" /\ password = ""
    THEN [kind |-> "Error", error |-> "TypeError"]
    ELSE LET opened == Decrypt(password, data.dekInfo.iv, data.body) IN
         IF opened.kind = "Error" THEN opened
         ELSE ParsePrivateKey(data.label, opened.plain)

\* Identity.__init__(key): a key that is given is kept
IdentityInit(k) == [kind |-> "Identity", key |-> k]

\* Faulty variant of from_exported_key: the key that was loaded is dropped and
\* the identity generates a key of its own.
from_exported_keyNewKey(encrypted, password) ==
    LET loaded == load_pem_private_key(encrypted, password) IN
    IF loaded.kind = "Error" THEN loaded
    ELSE IF loaded.key.kty # "RSA"
    THEN [kind |-> "Error", error |-> "AssertionError"]
    ELSE IdentityInit(RSAPrivateKey((loaded.key.id % MaxKeys) + 1))

\* Faulty variant of from_exported_key: the type of the loaded key is not
\* looked at.
from_exported_keyAnyKey(encrypted, password) ==
    LET loaded == load_pem_private_key(encrypted, password) IN
    IF loaded.kind = "Error" THEN loaded
    ELSE IdentityInit(loaded.key)

\* Identity.from_exported_key
from_exported_key(encrypted, password) ==
    LET loaded == load_pem_private_key(encrypted, password) IN
    IF loaded.kind = "Error" THEN loaded
    ELSE IF loaded.key.kty # "RSA"
    THEN [kind |-> "Error", error |-> "AssertionError"]
    ELSE IdentityInit(loaded.key)

\* Damage done to an exported blob before it is imported again
Corruptions == {"body", "iv", "truncated"}
Corrupt(b, how) ==
    CASE how = "body" -> [b EXCEPT !.body.damaged = TRUE]
      [] how = "iv" -> [b EXCEPT !.dekInfo.iv = b.dekInfo.iv + 100]
      [] how = "truncated" -> [b EXCEPT !.framed = FALSE]

\* Identity(): a new identity with a freshly generated key
Generate ==
    /\ \E k \in 1..MaxKeys : key' = RSAPrivateKey(k)
    /\ exported' = None /\ exportPw' = None /\ blob' = None
    /\ corrupted' = FALSE /\ imported' = None
    /\ UNCHANGED <<chainVars, mintVars, csrVars, wizVars,
                   storeVars, screenVars>>

\* id.export_key(password), the result written to the file
ExportKey ==
    /\ key # None
    /\ \E password \in Passwords, iv \in Ivs :
          /\ exported' = export_key(key, password, iv)
          /\ exportPw' = password
          /\ blob' = IF exported'.kind = "Ok" THEN exported'.blob ELSE None
    /\ corrupted' = FALSE
    /\ imported' = None
    /\ UNCHANGED <<key, chainVars, mintVars, csrVars, wizVars,
                   storeVars, screenVars>>

\* the file is damaged between the export and the import
CorruptBlob ==
    /\ blob # None /\ ~corrupted
    /\ \E how \in Corruptions : blob' = Corrupt(blob, how)
    /\ corrupted' = TRUE
    /\ UNCHANGED <<key, exported, exportPw, imported, chainVars, mintVars, csrVars, wizVars,
                   storeVars, screenVars>>

\* the file to import was written by another tool: an encrypted PEM of an
\* elliptic curve key
ForeignKeyFile ==
    /\ \E k \in 1..MaxKeys, password \in {"hunter2"}, iv \in Ivs :
          /\ blob' = [label |-> "EC PRIVATE KEY",
                      procType |-> "4,ENCRYPTED",
                      dekInfo |-> [cipher |-> "AES-256-CBC", iv |-> iv],
                      body |-> Encrypt(password, iv, DerPrivateKey([id |-> k])),
                      framed |-> TRUE]
          /\ exportPw' = password
    /\ exported' = None /\ corrupted' = FALSE /\ imported' = None
    /\ UNCHANGED <<key, chainVars, mintVars, csrVars, wizVars,
                   storeVars, screenVars>>

\* Identity.from_exported_key(file.read(), password)
ImportKey ==
    /\ blob # None
    /\ \E password \in Passwords :
          imported' = [blob |-> blob, password |-> password,
                       result |-> from_exported_key(blob, password)]
    /\ UNCHANGED <<key, exported, exportPw, blob, corrupted, chainVars, mintVars, csrVars, wizVars,
                   storeVars, screenVars>>

---------------------------------------------------------------------------
(* CertificateResponse.decode_certificate_chain.                           *)

\* An X.509 certificate as the DER bytes <<SEQUENCE, 3, serial, subject,
\* issuer>>; the names are 1 for the identity (CN=poi id), 2 for the sub CA
\* and 3 for the root CA, which signs itself.
CertificateDer(serial, subject, issuer) == <<48, 3, serial, subject, issuer>>
Certificate(der) ==
    [der |-> der, serial_number |-> der[3], subject |-> der[4], issuer |-> der[5]]

LeafCertificate == Certificate(CertificateDer(171, 1, 2))
SubCaCertificate == Certificate(CertificateDer(10, 2, 3))
RootCertificate == Certificate(CertificateDer(7, 3, 3))
Certificates == {LeafCertificate, SubCaCertificate, RootCertificate}

RECURSIVE SeqsUpTo(_, _)
SeqsUpTo(S, n) ==
    IF n = 0 THEN {<<>>}
    ELSE SeqsUpTo(S, n - 1)
         \cup {Append(c, x) : c \in {d \in SeqsUpTo(S, n - 1) : Len(d) = n - 1}, x \in S}

RECURSIVE ConcatDer(_)
ConcatDer(chain) ==
    IF chain = <<>> THEN <<>> ELSE Head(chain).der \o ConcatDer(Tail(chain))

\* What the issuer sends.  A PKCS#7 ContentInfo is the bytes <<SEQUENCE,
\* content type>>, content type 2 being signedData; a SignedData that has the
\* certificates field then holds <<[0], length>> and the certificates in the
\* order the issuer chose.
ContentTypeData == 1
ContentTypeSignedData == 2
TagSequence == 48
TagCertificates == 160
Forms == {"signed", "signedWithoutCertificates", "data"}
Pkcs7Der(form, chain) ==
    CASE form = "signed" ->
           <<TagSequence, ContentTypeSignedData, TagCertificates, 5 * Len(chain)>>
           \o ConcatDer(chain)
      [] form = "signedWithoutCertificates" -> <<TagSequence, ContentTypeSignedData>>
      [] form = "data" -> <<TagSequence, ContentTypeData>>

\* What can happen to the text of the p7 field on its way
Damages == {"none", "junk", "lineBreaks", "lastCharLost", "lastByteLost",
            "garbled", "notBase64"}
\* the first byte of the last certificate (of the envelope, if it holds none)
\* overwritten
Garble(der, chain) ==
    [der EXCEPT ![IF chain = <<>> THEN 1 ELSE Len(der) - 4] = 0]
P7Text(form, chain, damage) ==
    LET der == Pkcs7Der(form, chain)
        text == standard_b64encode(der) IN
    CASE damage = "none" -> text
      [] damage = "junk" -> <<"!">> \o text
      [] damage = "lineBreaks" -> SubSeq(text, 1, 4) \o <<"\n">> \o SubSeq(text, 5, Len(text))
      [] damage = "lastCharLost" -> SubSeq(text, 1, Len(text) - 1)
      [] damage = "lastByteLost" -> standard_b64encode(SubSeq(der, 1, Len(der) - 1))
      [] damage = "garbled" -> standard_b64encode(Garble(der, chain))
      [] damage = "notBase64" -> <<"<", "h", "t", "m", "l", ">">>

\* Faulty variant of ParseCertificates: the stack is returned last first.
RECURSIVE ParseCertificatesReversed(_)
ParseCertificatesReversed(bytes) ==
    IF bytes = <<>> THEN [kind |-> "Ok", chain |-> <<>>]
    ELSE IF Len(bytes) < 5 \/ bytes[1] # TagSequence \/ bytes[2] # 3
    THEN [kind |-> "Error", error |-> "ValueError"]
    ELSE LET rest == ParseCertificatesReversed(SubSeq(bytes, 6, Len(bytes))) IN
         IF rest.kind = "Error" THEN rest
         ELSE [kind |-> "Ok",
               chain |-> rest.chain \o <<Certificate(SubSeq(bytes, 1, 5))>>]

\* Faulty variant of ParseCertificates: what was read before the bytes stop
\* making sense is returned.
RECURSIVE ParseCertificatesPartial(_)
ParseCertificatesPartial(bytes) ==
    IF bytes = <<>> THEN [kind |-> "Ok", chain |-> <<>>]
    ELSE IF Len(bytes) < 5 \/ bytes[1] # TagSequence \/ bytes[2] # 3
    THEN [kind |-> "Ok", chain |-> <<>>]
    ELSE LET rest == ParseCertificatesPartial(SubSeq(bytes, 6, Len(bytes))) IN
         [kind |-> "Ok",
          chain |-> <<Certificate(SubSeq(bytes, 1, 5))>> \o rest.chain]

\* The certificates of a stack of DER certificates, in the order of the bytes
RECURSIVE ParseCertificates(_)
ParseCertificates(bytes) ==
    IF bytes = <<>> THEN [kind |-> "Ok", chain |-> <<>>]
    ELSE IF Len(bytes) < 5 \/ bytes[1] # TagSequence \/ bytes[2] # 3
    THEN [kind |-> "Error", error |-> "ValueError"]
    ELSE LET rest == ParseCertificates(SubSeq(bytes, 6, Len(bytes))) IN
         IF rest.kind = "Error" THEN rest
         ELSE [kind |-> "Ok",
               chain |-> <<Certificate(SubSeq(bytes, 1, 5))>> \o rest.chain]

\* pkcs7.load_der_pkcs7_certificates: bytes that are no PKCS#7 structure are a
\* ValueError, a structure that is not signedData is UnsupportedAlgorithm, a
\* SignedData without the certificates field is a ValueError, and the
\* certificates that are there are returned as the structure lists them.
load_der_pkcs7_certificates(bytes) ==
    IF Len(bytes) < 2 \/ bytes[1] # TagSequence
       \/ bytes[2] \notin {ContentTypeData, ContentTypeSignedData}
    THEN [kind |-> "Error", error |-> "ValueError"]
    ELSE IF bytes[2] # ContentTypeSignedData
    THEN [kind |-> "Error", error |-> "UnsupportedAlgorithm"]
    ELSE IF Len(bytes) = 2
    THEN [kind |-> "Error", error |-> "ValueError"]
    ELSE IF Len(bytes) < 4 \/ bytes[3] # TagCertificates \/ bytes[4] # Len(bytes) - 4
    THEN [kind |-> "Error", error |-> "ValueError"]
    ELSE ParseCertificates(SubSeq(bytes, 5, Len(bytes)))

\* CertificateResponse.decode_certificate_chain
decode_certificate_chain(text) ==
    LET raw == standard_b64decode(text) IN
    IF raw.kind = "Error" THEN raw
    ELSE load_der_pkcs7_certificates(raw.bytes)

\* certificate_response.decode_certificate_chain()
Decode ==
    /\ p7 # None
    /\ decoded' = decode_certificate_chain(p7)
    /\ UNCHANGED <<p7, sent, keyVars, mintVars, csrVars, wizVars,
                   storeVars, screenVars>>

---------------------------------------------------------------------------
(* Identity.create_authorization_grant and create_client_authentication.   *)

Emails == {"user@domain.com", "other@domain.com"}
AssertionLifetime == 3600
DigestModulus == 256

RECURSIVE Join(_)
Join(chars) == IF chars = <<>> THEN "" ELSE Head(chars) \o Join(Tail(chars))

\* int(time.time()) when the clock shows tick t
IntTime(t) == t \div TicksPerSecond

\* str(uuid4()) for the n-th value uuid4 hands out
UuidStr(n) == <<"uuid4", n>>

\* certificate.fingerprint(hashes.SHA1()): the digest of the DER bytes
RECURSIVE WeightedSum(_, _)
WeightedSum(b, w) == IF b = <<>> THEN 0 ELSE w * Head(b) + WeightedSum(Tail(b), w + 1)
fingerprint(certificate) ==
    <<SeqSum(certificate.der) % DigestModulus,
      WeightedSum(certificate.der, 1) % DigestModulus>>

\* certificate.public_bytes(serialization.Encoding.DER)
public_bytes(certificate) == certificate.der

\* f"https://ausidapp.gov.au/{certificate.serial_number}"
IssuerOf(certificate) ==
    "https://ausidapp.gov.au/" \o Join(IntStr(certificate.serial_number))

\* the headers argument both operations pass to jwt.encode
Headers(certificate) ==
    [kid |-> StrUpper(BytesHex(fingerprint(certificate))),
     x5c |-> <<standard_b64encode(public_bytes(certificate))>>]

\* jwt.encode(payload, key, algorithm, headers): the header gets typ and alg
\* besides the headers given, and the signature is made with key
jwt_encode(payload, k, algorithm, headers) ==
    [header |-> [typ |-> "JWT", alg |-> algorithm,
                 kid |-> headers.kid, x5c |-> headers.x5c],
     payload |-> payload,
     signature |-> [alg |-> algorithm, key |-> k]]

\* Faulty variant of create_authorization_grant: sub is the issuer, as in the
\* client authentication.
create_authorization_grantSubIsIssuer(k, email, certificate, uuid, t1, t2) ==
    jwt_encode([jti |-> UuidStr(uuid),
                sub |-> IssuerOf(certificate),
                nbf |-> IntTime(t1),
                exp |-> IntTime(t2) + AssertionLifetime,
                iss |-> IssuerOf(certificate),
                aud |-> "https://myGovId.gov.au/connect/token"],
               k, "RS256", Headers(certificate))

\* Faulty variant of create_authorization_grant: one jti for every assertion.
create_authorization_grantFixedJti(k, email, certificate, uuid, t1, t2) ==
    jwt_encode([jti |-> UuidStr(0),
                sub |-> email,
                nbf |-> IntTime(t1),
                exp |-> IntTime(t2) + AssertionLifetime,
                iss |-> IssuerOf(certificate),
                aud |-> "https://myGovId.gov.au/connect/token"],
               k, "RS256", Headers(certificate))

\* Identity.create_authorization_grant; uuid is what uuid4() returns, t1 and
\* t2 are the clock at the first and at the second time.time() call
create_authorization_grant(k, email, certificate, uuid, t1, t2) ==
    jwt_encode([jti |-> UuidStr(uuid),
                sub |-> email,
                nbf |-> IntTime(t1),
                exp |-> IntTime(t2) + AssertionLifetime,
                iss |-> IssuerOf(certificate),
                aud |-> "https://myGovId.gov.au/connect/token"],
               k, "RS256", Headers(certificate))

\* Faulty variant of create_client_authentication: sub is the bare serial.
create_client_authenticationSubIsSerial(k, certificate, uuid, t1, t2) ==
    jwt_encode([jti |-> UuidStr(uuid),
                sub |-> Join(IntStr(certificate.serial_number)),
                nbf |-> IntTime(t1),
                exp |-> IntTime(t2) + AssertionLifetime,
                iss |-> IssuerOf(certificate),
                aud |-> "https://myGovId.gov.au/connect/token"],
               k, "RS256", Headers(certificate))

\* Identity.create_client_authentication
create_client_authentication(k, certificate, uuid, t1, t2) ==
    jwt_encode([jti |-> UuidStr(uuid),
                sub |-> IssuerOf(certificate),
                nbf |-> IntTime(t1),
                exp |-> IntTime(t2) + AssertionLifetime,
                iss |-> IssuerOf(certificate),
                aud |-> "https://myGovId.gov.au/connect/token"],
               k, "RS256", Headers(certificate))

\* uuid4(): a value never handed out before
uuid4 == uuidsDrawn + 1

\* time passes
Tick ==
    /\ now < MaxTime
    /\ now' = now + 1
    /\ UNCHANGED <<uuidsDrawn, grant, clientAuth, jtiLog, keyVars, chainVars, csrVars, wizVars,
                   storeVars, screenVars>>

\* identity.create_authorization_grant(email, certificate); the clock moves
\* step ticks between the two time.time() calls
MintGrant ==
    /\ key # None /\ uuidsDrawn < MaxUuids
    /\ \E email \in Emails, certificate \in Certificates, step \in 0..MaxClockStep :
          /\ now + step <= MaxTime
          /\ grant' = [key |-> key, email |-> email, certificate |-> certificate,
                       reads |-> <<now, now + step>>,
                       token |-> create_authorization_grant(
                                     key, email, certificate, uuid4, now, now + step)]
          /\ now' = now + step
    /\ uuidsDrawn' = uuidsDrawn + 1
    /\ jtiLog' = Append(jtiLog, grant'.token.payload.jti)
    /\ UNCHANGED <<clientAuth, keyVars, chainVars, csrVars, wizVars,
                   storeVars, screenVars>>

\* identity.create_client_authentication(certificate)
MintClientAuth ==
    /\ key # None /\ uuidsDrawn < MaxUuids
    /\ \E certificate \in Certificates, step \in 0..MaxClockStep :
          /\ now + step <= MaxTime
          /\ clientAuth' = [key |-> key, certificate |-> certificate,
                            reads |-> <<now, now + step>>,
                            token |-> create_client_authentication(
                                          key, certificate, uuid4, now, now + step)]
          /\ now' = now + step
    /\ uuidsDrawn' = uuidsDrawn + 1
    /\ jtiLog' = Append(jtiLog, clientAuth'.token.payload.jti)
    /\ UNCHANGED <<grant, keyVars, chainVars, csrVars, wizVars,
                   storeVars, screenVars>>

---------------------------------------------------------------------------
(* The certificate signing request.                                        *)

MaxCsrs == 5         \* create_csr calls in one run

\* NameOID attributes of the subject, by their X.520 names
NameOID == [COMMON_NAME |-> "2.5.4.3", DN_QUALIFIER |-> "2.5.4.46",
            ORGANIZATION_NAME |-> "2.5.4.10", COUNTRY_NAME |-> "2.5.4.6"]

\* x509.NameAttribute(oid, value)
NameAttribute(oid, value) == [oid |-> oid, value |-> value]

\* b"\x16\x0emygovid.gov.au": an IA5String (tag 22) of 14 characters
ExtensionValue == <<22, 14, "mygovid.gov.au">>

\* x509.UnrecognizedExtension(x509.ObjectIdentifier(oid), value) as it is
\* added to the request by add_extension(extval, critical)
Extension(oid, value, critical) ==
    [oid |-> oid, value |-> value, critical |-> critical]

\* Faulty variant of create_csr: the DN qualifier is derived from the key
\* and so is the same in every request of one identity.
create_csrFixedQualifier(k, uuid) ==
    [subject |-> <<NameAttribute(NameOID.COMMON_NAME, "poi id"),
                   NameAttribute(NameOID.DN_QUALIFIER, UuidStr(k.id)),
                   NameAttribute(NameOID.ORGANIZATION_NAME, "mygovid.gov.au"),
                   NameAttribute(NameOID.COUNTRY_NAME, "AU")>>,
     extensions |-> <<Extension("1.2.36.1.333.1", ExtensionValue, FALSE)>>,
     public_key |-> public_key(k),
     signature |-> [algorithm |-> "SHA512", key |-> k.id]]

\* Identity.create_csr, up to .sign(self.key, hashes.SHA512()); uuid is the
\* value uuid4() returns in this call
create_csr(k, uuid) ==
    [subject |-> <<NameAttribute(NameOID.COMMON_NAME, "poi id"),
                   NameAttribute(NameOID.DN_QUALIFIER, UuidStr(uuid)),
                   NameAttribute(NameOID.ORGANIZATION_NAME, "mygovid.gov.au"),
                   NameAttribute(NameOID.COUNTRY_NAME, "AU")>>,
     extensions |-> <<Extension("1.2.36.1.333.1", ExtensionValue, FALSE)>>,
     public_key |-> public_key(k),
     signature |-> [algorithm |-> "SHA512", key |-> k.id]]

\* CertificateSigningRequest(p10=standard_b64encode(csr.public_bytes(DER)));
\* the encoding is kept symbolic, the request can be read back from it
CertificateSigningRequest(csr) ==
    [p10 |-> [encoding |-> "base64 DER", request |-> csr]]

\* identity.create_csr()
CreateCsr ==
    /\ key # None /\ Len(csrLog) < MaxCsrs
    /\ csrLog' = Append(csrLog,
                    [key |-> key,
                     body |-> CertificateSigningRequest(create_csr(key, uuid4))])
    /\ uuidsDrawn' = uuidsDrawn + 1
    /\ UNCHANGED <<now, grant, clientAuth, jtiLog, keyVars, chainVars, wizVars,
                   storeVars, screenVars>>

---------------------------------------------------------------------------
(* The new identity wizard: InitialScreen.action_create_new_identity.      *)
(* A run is a coroutine; it is resumed at an await and runs to the next    *)
(* one, so each action below is the code between two awaits.  Entering and *)
(* leaving an "async with" block is taken as part of the step around it.   *)

MaxEta == 2          \* largest eta, in seconds, of a certificate signing task

\* the code typed into the EmailVerificationScreen; the service verifies one
Codes == {"", "123456"}
VerifiedCode == "123456"

\* the envelopes the service can hold for a signing task
Payloads ==
    {[form |-> "signed", chain |-> <<LeafCertificate>>, damage |-> "none"],
     [form |-> "signed", chain |-> <<LeafCertificate, SubCaCertificate>>,
      damage |-> "none"],
     [form |-> "signed", chain |-> <<SubCaCertificate, LeafCertificate>>,
      damage |-> "none"],
     [form |-> "signed", chain |-> <<>>, damage |-> "none"],
     [form |-> "data", chain |-> <<>>, damage |-> "none"],
     [form |-> "signed", chain |-> <<LeafCertificate, SubCaCertificate>>,
      damage |-> "garbled"]}

\* the passwords the PasswordScreen is dismissed with: its button is
\* disabled while the input is empty
ChosenPasswords == {"hunter2", "secret password"}

\* the awaits of a run that wait for the service
NetworkAwaits ==
    {"get_terms_and_conditions", "initiate_proof_of_identity_process",
     "initiate_email_verification_task", "complete_email_verification_task",
     "initiate_certificate_signing_task", "get_signed_certificate",
     "post_personal_details"}

\* the awaits of a run that wait for a pushed screen to be dismissed
ScreenAwaits ==
    {"TermsOfUseScreen", "EmailAddressScreen", "EmailVerificationScreen",
     "PersonalDetailsScreen", "PasswordScreen", "CompleteScreen"}

Awaits == NetworkAwaits \cup ScreenAwaits \cup {"sleep"}

\* the local variables of a run before any is bound
NoLocals ==
    [email |-> None, processId |-> None, identity |-> None, csr |-> None,
     task |-> None, slept |-> 0, certificate_response |-> None,
     email_verification_task |-> None, email_verification_result |-> None]

\* Identity(email): an identity for email with a freshly generated key
IdentityForEmail(email, k) ==
    [kind |-> "Identity", email |-> email, key |-> RSAPrivateKey(k),
     certificates |-> <<>>, processed |-> FALSE]

\* rsa.generate_private_key hands out a key no run holds yet
FreshKey ==
    1 + Cardinality({b \in Attempts : locals[b].identity # None})

\* identity.create_certificate_signing_request(processId): the request of
\* create_csr
create_certificate_signing_request(identity, processId, uuid) ==
    CertificateSigningRequest(create_csr(identity.key, uuid))

\* identity.process_certificate_response(certificate_response): the chain
\* decoder is run on the p7 field and the identity keeps the chain
process_certificate_response(identity, certificate_response) ==
    LET chain == decode_certificate_chain(certificate_response.p7) IN
    IF chain.kind = "Error" THEN chain
    ELSE [kind |-> "Ok",
          identity |-> [identity EXCEPT !.certificates = chain.chain,
                                        !.processed = TRUE]]

\* identity.export(password): key and certificates sealed under password
IdentityExport(identity, password) ==
    IF PasswordBytes(password) = 0
    THEN [kind |-> "Error", error |-> "ValueError"]
    ELSE [kind |-> "Ok",
          p12 |-> [sealedWith |-> password, name |-> identity.email,
                   key |-> identity.key,
                   certificates |-> identity.certificates]]

\* Identity.from_export(p12, password): the container opens under the
\* password it was sealed with and gives the identity back
IdentityFromExport(p12, password) ==
    IF p12.sealedWith # password
    THEN [kind |-> "Error", error |-> "ValueError"]
    ELSE [kind |-> "Ok",
          identity |-> [kind |-> "Identity", email |-> p12.name,
                        key |-> p12.key, certificates |-> p12.certificates,
                        processed |-> TRUE]]

\* Faulty variant of StoreInsert: the table has no primary key, a row is
\* added whatever the table holds.
StoreInsertNoPrimaryKey(rows, identity, password) ==
    LET p12 == IdentityExport(identity, password) IN
    IF p12.kind = "Error" THEN p12
    ELSE [kind |-> "Ok",
          rows |-> rows \cup {[email |-> identity.email, p12 |-> p12.p12]}]

\* Faulty variant of StoreInsert: the row of an email that is taken is
\* replaced.
StoreInsertReplaces(rows, identity, password) ==
    LET p12 == IdentityExport(identity, password) IN
    IF p12.kind = "Error" THEN p12
    ELSE [kind |-> "Ok",
          rows |-> {row \in rows : row.email # identity.email}
                      \cup {[email |-> identity.email, p12 |-> p12.p12]}]

\* IdentityStore.insert: the row is added unless export fails or the email
\* (the primary key) is taken
StoreInsert(rows, identity, password) ==
    LET p12 == IdentityExport(identity, password) IN
    IF p12.kind = "Error" THEN p12
    ELSE IF \E row \in rows : row.email = identity.email
    THEN [kind |-> "Error", error |-> "IntegrityError"]
    ELSE [kind |-> "Ok",
          rows |-> rows \cup {[email |-> identity.email, p12 |-> p12.p12]}]

\* IdentityStore.get_emails: one entry for each row; the list is given as
\* the number of times each email is in it
get_emails(rows) ==
    [email \in {row.email : row \in rows} |->
        Cardinality({row \in rows : row.email = email})]

\* IdentityStore.get_identity: fetchone gives the row of the email, or None
\* for an email that has no row, and None[0] raises TypeError
StoreGetIdentity(rows, email, password) ==
    LET found == {row \in rows : row.email = email} IN
    IF found = {} THEN [kind |-> "Error", error |-> "TypeError"]
    ELSE IdentityFromExport((CHOOSE row \in found : TRUE).p12, password)

\* asyncio.sleep(eta * 1.5): the delay in half seconds
SleepDelay(eta) == 3 * eta

\* the record of one call to a collaborator
Call(op, arg) == [op |-> op, arg |-> arg]

\* the run moves on to its next await, having called op
Goes(a, next, op, arg, state) ==
    /\ pc' = [pc EXCEPT ![a] = next]
    /\ calls' = [calls EXCEPT ![a] = Append(@, Call(op, arg))]
    /\ path' = [path EXCEPT ![a] = @ \o state]

\* an exception leaves the coroutine: nothing catches it, the run is over
Raises(a, error, state) ==
    /\ pc' = [pc EXCEPT ![a] = "done"]
    /\ outcome' = [outcome EXCEPT ![a] = [kind |-> "Failed", cause |-> error]]
    /\ path' = [path EXCEPT ![a] = @ \o state \o <<"Failed">>]

\* Faulty variant of Returns: the run returns and leaves loading as it is.
ReturnsStillLoading(a) ==
    /\ pc' = [pc EXCEPT ![a] = "done"]
    /\ outcome' = [outcome EXCEPT ![a] = [kind |-> "Abandoned"]]
    /\ UNCHANGED <<loading, locals, path, calls, store, select>>

\* a screen was dismissed without a result: loading is reset and the run
\* returns
Returns(a) ==
    /\ pc' = [pc EXCEPT ![a] = "done"]
    /\ outcome' = [outcome EXCEPT ![a] = [kind |-> "Abandoned"]]
    /\ loading' = FALSE
    /\ UNCHANGED <<locals, path, calls, store, select>>

Rest == UNCHANGED <<keyVars, chainVars, now, grant, clientAuth, jtiLog, csrVars,
                    service, storeVars, password_input, sign_in_button>>

\* no screen of the wizard is touched
ScreensStay == UNCHANGED <<details, pressed>>

\* the inputs of the PersonalDetailsScreen
DetailsInputs ==
    {"given_name", "family_name", "dob_year", "dob_month", "dob_day"}

\* what the user has in an input: nothing, or a text the input takes
InputValues(input) ==
    CASE input = "given_name"  -> {<<>>, <<"A", "d", "a">>}
      [] input = "family_name" -> {<<>>, <<"K", "i", "n", "g">>}
      [] input = "dob_year"    -> {<<>>, <<"1", "8", "1", "5">>}
      [] input = "dob_month"   -> {<<>>, <<"1", "2">>}
      [] input = "dob_day"     -> {<<>>, <<"1", "0">>}

\* PersonalDetailsScreen.compose: the inputs are empty, Next is disabled
ComposeDetails ==
    [given_name |-> <<>>, family_name |-> <<>>, dob_year |-> <<>>,
     dob_month |-> <<>>, dob_day |-> <<>>,
     next_button |-> [disabled |-> TRUE]]

\* the truth value of a widget: an Input object is true whatever it holds
WidgetIsTrue(input) == TRUE

\* the value PersonalDetailsScreen.on_input_changed gives next_button.disabled:
\* the first four terms test the value of an input, the fifth the input
NextDisabled(screen) ==
    \/ screen.given_name = <<>>
    \/ screen.family_name = <<>>
    \/ screen.dob_year = <<>>
    \/ screen.dob_month = <<>>
    \/ ~WidgetIsTrue("dob_day")

\* int(text) for a text of decimal digits; ValueError for any other text,
\* the empty one included
RECURSIVE DigitsValue(_)
DigitsValue(text) ==
    IF text = <<>> THEN 0
    ELSE 10 * DigitsValue(SubSeq(text, 1, Len(text) - 1))
            + (IndexOf(Digits, text[Len(text)]) - 1)
int(text) ==
    IF text = <<>> \/ \E i \in 1..Len(text) : IndexOf(Digits, text[i]) = 0
    THEN [kind |-> "Error", error |-> "ValueError"]
    ELSE [kind |-> "Ok", value |-> DigitsValue(text)]

\* PersonalDetailsBody(givenName, familyName, DateOfBirth(int(year),
\* int(month), int(day))) of lines 395-403
PersonalDetailsBody(screen) ==
    LET year == int(screen.dob_year)
        month == int(screen.dob_month)
        day == int(screen.dob_day) IN
    IF year.kind = "Error" THEN year
    ELSE IF month.kind = "Error" THEN month
    ELSE IF day.kind = "Error" THEN day
    ELSE [kind |-> "Ok",
          body |-> [givenName |-> screen.given_name,
                    familyName |-> screen.family_name,
                    dateOfBirth |-> [year |-> year.value,
                                     month |-> month.value,
                                     day |-> day.value]]]

\* a button dismissed, or was pressed on, the screen run a waits for
Pressed(a, button) ==
    pressed' = [pressed EXCEPT ![a] =
                  Append(@, [screen |-> pc[a], button |-> button])]

\* an exception leaves a handler of a screen: the app ends on it, and with
\* the app every run that is under way
Crashes(a, error) ==
    /\ pc' = [b \in Attempts |-> IF pc[b] \in Awaits THEN "done" ELSE pc[b]]
    /\ outcome' = [b \in Attempts |->
                     IF b = a THEN [kind |-> "Failed", cause |-> error]
                     ELSE IF pc[b] \in Awaits
                     THEN [kind |-> "Failed", cause |-> "CancelledError"]
                     ELSE outcome[b]]
    /\ path' = [b \in Attempts |->
                  IF pc[b] \in Awaits THEN Append(path[b], "Failed")
                  ELSE path[b]]
    /\ details' = [b \in Attempts |-> None]

\* the button "Create New Identity" of the InitialScreen starts a run, which
\* it can while no screen of a run lies over the InitialScreen: lines 505-507
Start(a) ==
    /\ pc[a] = "idle"
    /\ \A b \in Attempts : pc[b] \notin ScreenAwaits
    /\ loading' = TRUE
    /\ locals' = [locals EXCEPT ![a] = NoLocals]
    /\ Goes(a, "get_terms_and_conditions", "get_terms_and_conditions", None,
            <<"Idle">>)
    /\ UNCHANGED <<outcome, store, select, uuidsDrawn>> /\ Rest /\ ScreensStay

\* Faulty variant of TermsReceived: the process is initiated as soon as the
\* terms arrive, no TermsOfUseScreen is shown.
TermsReceivedInitiatesAtOnce(a) ==
    /\ pc[a] = "get_terms_and_conditions"
    /\ Goes(a, "initiate_proof_of_identity_process",
            "initiate_proof_of_identity_process", "version", <<>>)
    /\ UNCHANGED <<locals, outcome, loading, store, select, uuidsDrawn>>
    /\ Rest /\ ScreensStay

\* lines 507-510: the terms arrive, the TermsOfUseScreen is pushed
TermsReceived(a) ==
    /\ pc[a] = "get_terms_and_conditions"
    /\ pc' = [pc EXCEPT ![a] = "TermsOfUseScreen"]
    /\ UNCHANGED <<locals, outcome, path, calls, loading, store, select,
                   uuidsDrawn>> /\ Rest /\ ScreensStay

\* lines 508-515: the TermsOfUseScreen is dismissed
TermsDismissed(a) ==
    /\ pc[a] = "TermsOfUseScreen"
    /\ \/ Returns(a) /\ Pressed(a, "cancel")
       \/ /\ Goes(a, "initiate_proof_of_identity_process",
                   "initiate_proof_of_identity_process", "version", <<>>)
          /\ Pressed(a, "next")
          /\ UNCHANGED <<locals, outcome, loading, store, select>>
    /\ UNCHANGED <<uuidsDrawn, details>> /\ Rest

\* lines 513-516: the process arrives, the EmailAddressScreen is pushed
ProcessReceived(a) ==
    /\ pc[a] = "initiate_proof_of_identity_process"
    /\ pc' = [pc EXCEPT ![a] = "EmailAddressScreen"]
    /\ locals' = [locals EXCEPT ![a].processId = <<"process", a>>]
    /\ UNCHANGED <<outcome, path, calls, loading, store, select, uuidsDrawn>>
    /\ Rest /\ ScreensStay

\* lines 516-522: the EmailAddressScreen is dismissed
EmailDismissed(a) ==
    /\ pc[a] = "EmailAddressScreen"
    /\ \/ Returns(a) /\ Pressed(a, "cancel")
       \/ \E email \in Emails :
             /\ Goes(a, "initiate_email_verification_task",
                     "initiate_email_verification_task",
                     <<locals[a].processId, email>>, <<>>)
             /\ Pressed(a, "next")
             /\ locals' = [locals EXCEPT ![a].email = email]
             /\ UNCHANGED <<outcome, loading, store, select>>
    /\ UNCHANGED <<uuidsDrawn, details>> /\ Rest

\* lines 520-525: the task arrives, the EmailVerificationScreen is pushed
EmailTaskReceived(a) ==
    /\ pc[a] = "initiate_email_verification_task"
    /\ pc' = [pc EXCEPT ![a] = "EmailVerificationScreen"]
    /\ locals' = [locals EXCEPT ![a].email_verification_task =
                                  [id |-> <<"email task", a>>]]
    /\ UNCHANGED <<outcome, path, calls, loading, store, select,
                   uuidsDrawn>> /\ Rest /\ ScreensStay

\* lines 523-534: the EmailVerificationScreen is dismissed; either of its
\* buttons dismisses it with the value of the input, which is never None
CodeDismissed(a) ==
    /\ pc[a] = "EmailVerificationScreen"
    /\ \E button \in {"next", "cancel"}, code \in Codes :
          /\ button = "next" => code # ""
          /\ Pressed(a, button)
          /\ Goes(a, "complete_email_verification_task",
                  "complete_email_verification_task",
                  <<locals[a].processId, locals[a].email, code>>, <<>>)
    /\ UNCHANGED <<locals, outcome, loading, store, select, uuidsDrawn,
                   details>> /\ Rest

\* lines 529-544: the verification result arrives; the identity is made,
\* the signing request built and submitted
EmailVerified(a) ==
    /\ pc[a] = "complete_email_verification_task"
    /\ calls[a][Len(calls[a])].arg[3] = VerifiedCode
    /\ LET identity == IdentityForEmail(locals[a].email, FreshKey)
           csr == create_certificate_signing_request(
                      identity, locals[a].processId, uuid4) IN
       /\ locals' = [locals EXCEPT
                        ![a].email_verification_result =
                            [poiAssuranceToken |-> <<"assurance token", a>>],
                        ![a].identity = identity, ![a].csr = csr]
       /\ calls' = [calls EXCEPT ![a] =
                      @ \o <<Call("create_certificate_signing_request",
                                  locals[a].processId),
                             Call("initiate_certificate_signing_task", csr)>>]
    /\ pc' = [pc EXCEPT ![a] = "initiate_certificate_signing_task"]
    /\ path' = [path EXCEPT ![a] = Append(@, "RequestBuilt")]
    /\ uuidsDrawn' = uuidsDrawn + 1
    /\ UNCHANGED <<outcome, loading, store, select>> /\ Rest /\ ScreensStay

\* Faulty variant of TaskReceived: the certificate is asked for at once, the
\* run never sleeps.
TaskReceivedFetchesAtOnce(a) ==
    /\ pc[a] = "initiate_certificate_signing_task"
    /\ LET task == [id |-> <<"task", a>>, eta |-> service.eta] IN
       /\ locals' = [locals EXCEPT ![a].task = task,
                                   ![a].slept = SleepDelay(task.eta)]
       /\ Goes(a, "get_signed_certificate", "get_signed_certificate",
               task.id, <<"Submitted">>)
    /\ UNCHANGED <<outcome, loading, store, select, uuidsDrawn>> /\ Rest /\ ScreensStay

\* lines 540-545: the signing task arrives and the run goes to sleep
TaskReceived(a) ==
    /\ pc[a] = "initiate_certificate_signing_task"
    /\ LET task == [id |-> <<"task", a>>, eta |-> service.eta] IN
       /\ locals' = [locals EXCEPT ![a].task = task, ![a].slept = 0]
       /\ Goes(a, "sleep", "asyncio.sleep", SleepDelay(task.eta),
               <<"Submitted", "Pending">>)
    /\ UNCHANGED <<outcome, loading, store, select, uuidsDrawn>> /\ Rest /\ ScreensStay

\* half a second of the sleep passes
SleepTick(a) ==
    /\ pc[a] = "sleep"
    /\ locals[a].slept < SleepDelay(locals[a].task.eta)
    /\ locals' = [locals EXCEPT ![a].slept = @ + 1]
    /\ UNCHANGED <<pc, outcome, path, calls, loading, store, select,
                   uuidsDrawn>> /\ Rest /\ ScreensStay

\* Faulty variant of Wake: the run is resumed whatever time has passed.
WakeAtOnce(a) ==
    /\ pc[a] = "sleep"
    /\ Goes(a, "get_signed_certificate", "get_signed_certificate",
            locals[a].task.id, <<>>)
    /\ UNCHANGED <<locals, outcome, loading, store, select, uuidsDrawn>> /\ Rest /\ ScreensStay

\* lines 545-548: asyncio.sleep returns once the delay has passed, the
\* certificate is asked for
Wake(a) ==
    /\ pc[a] = "sleep"
    /\ locals[a].slept >= SleepDelay(locals[a].task.eta)
    /\ Goes(a, "get_signed_certificate", "get_signed_certificate",
            locals[a].task.id, <<>>)
    /\ UNCHANGED <<locals, outcome, loading, store, select, uuidsDrawn>> /\ Rest /\ ScreensStay

\* Faulty variant of TaskNotComplete: the run sleeps again and asks anew.
TaskNotCompletePolls(a) ==
    /\ pc[a] = "get_signed_certificate" /\ ~service.ready
    /\ Len(calls[a]) < 16
    /\ locals' = [locals EXCEPT ![a].slept = 0]
    /\ Goes(a, "sleep", "asyncio.sleep", SleepDelay(locals[a].task.eta), <<>>)
    /\ UNCHANGED <<outcome, loading, store, select, uuidsDrawn>> /\ Rest /\ ScreensStay

\* line 546: the task is not complete after the sleep; its answer is no
\* CertificateResponse and get_signed_certificate raises
TaskNotComplete(a) ==
    /\ pc[a] = "get_signed_certificate" /\ ~service.ready
    /\ Raises(a, "ResponseError", <<>>)
    /\ UNCHANGED <<locals, calls, loading, store, select, uuidsDrawn>> /\ Rest /\ ScreensStay

\* lines 546-557: the certificate response arrives and is processed, the
\* PersonalDetailsScreen is pushed
CertificateReceived(a) ==
    /\ pc[a] = "get_signed_certificate" /\ service.ready
    /\ LET response == [p7 |-> P7Text(service.payload.form,
                                      service.payload.chain,
                                      service.payload.damage),
                        credentialToken |-> <<"token", a>>]
           processed == process_certificate_response(
                            locals[a].identity, response) IN
       IF processed.kind = "Error"
       THEN /\ Raises(a, processed.error, <<"CertificateFetched">>)
            /\ locals' = [locals EXCEPT ![a].certificate_response = response]
            /\ calls' = [calls EXCEPT ![a] =
                           Append(@, Call("process_certificate_response",
                                          response))]
       ELSE /\ locals' = [locals EXCEPT
                            ![a].certificate_response = response,
                            ![a].identity = processed.identity]
            /\ Goes(a, "PersonalDetailsScreen",
                    "process_certificate_response", response,
                    <<"CertificateFetched", "ChainDecoded">>)
            /\ UNCHANGED outcome
    /\ details' = [details EXCEPT ![a] =
                     IF pc'[a] = "PersonalDetailsScreen"
                     THEN ComposeDetails ELSE @]
    /\ UNCHANGED <<loading, store, select, uuidsDrawn, pressed>> /\ Rest

\* Faulty variant of DetailsDismissed: the identity is stored before the
\* details are posted and before a password is asked for.
DetailsDismissedStoresFirst(a) ==
    /\ pc[a] = "PersonalDetailsScreen"
    /\ LET added == StoreInsert(store, locals[a].identity, "hunter2") IN
       /\ calls' = [calls EXCEPT ![a] =
                      @ \o <<Call("insert", <<locals[a].identity.email, "hunter2">>),
                             Call("post_personal_details",
                                  <<locals[a].processId, "personal details">>)>>]
       /\ store' = IF added.kind = "Ok" THEN added.rows ELSE store
    /\ pc' = [pc EXCEPT ![a] = "post_personal_details"]
    /\ UNCHANGED <<locals, outcome, path, loading, select, uuidsDrawn>> /\ Rest /\ ScreensStay

\* lines 553-562: the PersonalDetailsScreen is dismissed
DetailsDismissed(a) ==
    /\ pc[a] = "PersonalDetailsScreen"
    /\ \/ /\ Returns(a) /\ Pressed(a, "cancel")
          /\ details' = [details EXCEPT ![a] = None]
       \/ /\ ~details[a].next_button.disabled
          /\ Pressed(a, "next")
          /\ LET built == PersonalDetailsBody(details[a]) IN
             IF built.kind = "Error"
             THEN /\ Crashes(a, built.error)
                  /\ UNCHANGED <<locals, calls, loading, store, select>>
             ELSE /\ Goes(a, "post_personal_details", "post_personal_details",
                          <<locals[a].processId, built.body>>, <<>>)
                  /\ details' = [details EXCEPT ![a] = None]
                  /\ UNCHANGED <<locals, outcome, loading, store, select>>
    /\ UNCHANGED uuidsDrawn /\ Rest

\* PersonalDetailsScreen.on_input_changed: one of the inputs has a new value
DetailsChanged(a) ==
    /\ pc[a] = "PersonalDetailsScreen"
    /\ \E input \in DetailsInputs :
         \E value \in InputValues(input) \ {details[a][input]} :
            LET edited == [details[a] EXCEPT ![input] = value] IN
            details' = [details EXCEPT ![a] =
                          [edited EXCEPT !.next_button =
                              [disabled |-> NextDisabled(edited)]]]
    /\ UNCHANGED <<pc, locals, outcome, path, calls, loading, store, select,
                   uuidsDrawn, pressed>> /\ Rest

\* lines 559-563: the details are posted, the PasswordScreen is pushed
DetailsPosted(a) ==
    /\ pc[a] = "post_personal_details"
    /\ pc' = [pc EXCEPT ![a] = "PasswordScreen"]
    /\ UNCHANGED <<locals, outcome, path, calls, loading, store, select,
                   uuidsDrawn>> /\ Rest /\ ScreensStay

\* lines 563-575: the PasswordScreen is dismissed; the identity is stored,
\* the select refreshed and the CompleteScreen pushed
PasswordDismissed(a) ==
    /\ pc[a] = "PasswordScreen"
    /\ \/ Returns(a) /\ Pressed(a, "cancel")
       \/ \E password \in ChosenPasswords :
               LET added == StoreInsert(store, locals[a].identity, password) IN
               /\ Pressed(a, "next")
               /\ calls' = [calls EXCEPT ![a] =
                              Append(@, Call("insert", <<locals[a].identity.email,
                                                         password>>))]
               /\ IF added.kind = "Error"
                  THEN /\ pc' = [pc EXCEPT ![a] = "done"]
                       /\ outcome' = [outcome EXCEPT ![a] =
                                        [kind |-> "Failed",
                                         cause |-> added.error]]
                       /\ path' = [path EXCEPT ![a] = Append(@, "Failed")]
                       /\ UNCHANGED <<store, select>>
                  ELSE /\ pc' = [pc EXCEPT ![a] = "CompleteScreen"]
                       /\ store' = added.rows
                       /\ select' = [options |-> DOMAIN get_emails(added.rows),
                                     value |-> locals[a].identity.email]
                       /\ UNCHANGED <<outcome, path>>
               /\ UNCHANGED <<locals, loading>>
    /\ UNCHANGED <<uuidsDrawn, details>> /\ Rest

\* lines 575-576: the CompleteScreen is dismissed, the run ends
CompleteDismissed(a) ==
    /\ pc[a] = "CompleteScreen"
    /\ pc' = [pc EXCEPT ![a] = "done"]
    /\ outcome' = [outcome EXCEPT ![a] = [kind |-> "Complete"]]
    /\ path' = [path EXCEPT ![a] = Append(@, "Complete")]
    /\ loading' = FALSE
    /\ Pressed(a, "finish")
    /\ UNCHANGED <<locals, calls, store, select, uuidsDrawn, details>> /\ Rest

\* a request to the service fails; a wrong verification code is refused
NetworkFails(a) ==
    /\ pc[a] \in NetworkAwaits
    /\ \E error \in {"TransportError"} :
          Raises(a, error, <<>>)
    /\ UNCHANGED <<locals, calls, loading, store, select, uuidsDrawn>> /\ Rest /\ ScreensStay

\* Faulty variant of Cancel: a run that is over can be cancelled once more.
CancelWhenOver(a) ==
    /\ pc[a] \in Awaits \cup {"done"}
    /\ outcome[a] # [kind |-> "Failed", cause |-> "CancelledError"]
    /\ Raises(a, "CancelledError", <<>>)
    /\ UNCHANGED <<locals, calls, loading, store, select, uuidsDrawn>> /\ Rest /\ ScreensStay

\* Faulty variant of Cancel: a cancellation during the sleep is caught and
\* the run goes on to ask for the certificate.
CancelCaughtInSleep(a) ==
    /\ pc[a] \in Awaits
    /\ IF pc[a] = "sleep"
       THEN /\ Goes(a, "get_signed_certificate", "get_signed_certificate",
                    locals[a].task.id, <<>>)
            /\ UNCHANGED outcome
       ELSE Raises(a, "CancelledError", <<>>) /\ UNCHANGED calls
    /\ UNCHANGED <<locals, loading, store, select, uuidsDrawn>> /\ Rest /\ ScreensStay

\* the worker of the run is cancelled: CancelledError is raised at the
\* await the run is suspended in
Cancel(a) ==
    /\ pc[a] \in Awaits
    /\ Raises(a, "CancelledError", <<>>)
    /\ UNCHANGED <<locals, calls, loading, store, select, uuidsDrawn>> /\ Rest /\ ScreensStay

\* what the user types into the password Input of the InitialScreen
TypedPasswords == {"", "hunter2"}

\* the InitialScreen is the screen the user sees
InitialScreenOnTop == \A a \in Attempts : pc[a] \notin ScreenAwaits

\* Select.is_blank()
is_blank(selection) == selection.value = BLANK

\* InitialScreen.on_input_changed: the password Input has a new value
PasswordChanged ==
    /\ InitialScreenOnTop
    /\ \E value \in TypedPasswords \ {password_input} :
          /\ password_input' = value
          /\ sign_in_button' =
                [disabled |-> (value = "" /\ is_blank(select))]
    /\ UNCHANGED <<keyVars, chainVars, mintVars, csrVars, wizVars, storeVars,
                   details, pressed>>

\* the user picks another identity in identity_select; the screen has no
\* handler for it
IdentitySelected ==
    /\ InitialScreenOnTop
    /\ \E email \in select.options :
          /\ email # select.value
          /\ select' = [select EXCEPT !.value = email]
    /\ UNCHANGED <<keyVars, chainVars, mintVars, csrVars, pc, locals, outcome,
                   path, calls, loading, store, service, storeVars,
                   screenVars>>

\* one step of run a
Run(a) ==
    \/ Start(a) \/ TermsReceived(a) \/ TermsDismissed(a)
    \/ ProcessReceived(a) \/ EmailDismissed(a) \/ EmailTaskReceived(a)
    \/ CodeDismissed(a) \/ EmailVerified(a) \/ TaskReceived(a)
    \/ SleepTick(a) \/ Wake(a) \/ TaskNotComplete(a) \/ CertificateReceived(a)
    \/ DetailsChanged(a) \/ DetailsDismissed(a) \/ DetailsPosted(a)
    \/ PasswordDismissed(a)
    \/ CompleteDismissed(a) \/ NetworkFails(a) \/ Cancel(a)

---------------------------------------------------------------------------
(* The IdentityStore on its own: identities that hold their certificates   *)
(* are inserted, read back and listed.                                     *)

\* the passwords the store is called with
StorePasswords == {"", "hunter2", "secret password"}

\* an identity as it is when the wizard hands it to insert
IssuedIdentity(email, k) ==
    [IdentityForEmail(email, k) EXCEPT
        !.certificates = <<LeafCertificate, SubCaCertificate>>,
        !.processed = TRUE]

StoreStays == UNCHANGED <<keyVars, chainVars, mintVars, csrVars, pc, locals,
                          outcome, path, calls, loading, select, service,
                          screenVars>>

\* identity_store.insert(identity, password)
Insert ==
    /\ \E email \in Emails, k \in 1..MaxKeys, password \in StorePasswords :
          LET identity == IssuedIdentity(email, k)
              result == StoreInsert(store, identity, password) IN
          /\ store' = IF result.kind = "Ok" THEN result.rows ELSE store
          /\ inserted' = [identity |-> identity, password |-> password,
                          result |-> IF result.kind = "Ok"
                                     THEN [kind |-> "Ok"] ELSE result]
    /\ answer' = None
    /\ StoreStays

\* identity_store.get_identity(email, password)
GetIdentity ==
    /\ \E email \in Emails, password \in StorePasswords :
          answer' = [op |-> "get_identity", email |-> email,
                     password |-> password,
                     result |-> StoreGetIdentity(store, email, password)]
    /\ UNCHANGED <<store, inserted>> /\ StoreStays

\* identity_store.get_emails()
GetEmails ==
    /\ answer' = [op |-> "get_emails", email |-> None, password |-> None,
                  result |-> [kind |-> "Ok", emails |-> get_emails(store)]]
    /\ UNCHANGED <<store, inserted>> /\ StoreStays

---------------------------------------------------------------------------
(* The specifications: one per component, the other components at rest.    *)

KeyRest ==
    /\ exported = None /\ exportPw = None /\ blob = None
    /\ corrupted = FALSE /\ imported = None
ChainRest == p7 = None /\ sent = None /\ decoded = None
MintRest ==
    /\ now = 0 /\ uuidsDrawn = 0 /\ grant = None /\ clientAuth = None
    /\ jtiLog = <<>>
CsrRest == csrLog = <<>>
StoreRest == inserted = None /\ answer = None
\* InitialScreen.compose: the password is empty, Sign In is disabled; no
\* screen of the wizard is there
ScreenRest ==
    /\ password_input = "" /\ sign_in_button = [disabled |-> TRUE]
    /\ details = [a \in Attempts |-> None]
    /\ pressed = [a \in Attempts |-> <<>>]
WizRest ==
    /\ pc = [a \in Attempts |-> "idle"]
    /\ locals = [a \in Attempts |-> None]
    /\ outcome = [a \in Attempts |-> None]
    /\ path = [a \in Attempts |-> <<>>]
    /\ calls = [a \in Attempts |-> <<>>]
    /\ loading = FALSE
    /\ store = {}
    /\ select = [options |-> {}, value |-> BLANK]
    /\ service = None

\* the key round trip, starting from a generated identity
InitKeys ==
    /\ \E k \in 1..MaxKeys : key = RSAPrivateKey(k)
    /\ KeyRest /\ ChainRest /\ MintRest /\ CsrRest /\ WizRest /\ StoreRest
    /\ ScreenRest
NextKeys == Generate \/ ExportKey \/ ForeignKeyFile \/ CorruptBlob \/ ImportKey
SpecKeys == InitKeys /\ [][NextKeys]_vars

\* the decoding of certificate responses
\* CertificateResponse(p7=...): the response the issuer's envelope arrives in
InitChain ==
    /\ \E form \in Forms, chain \in SeqsUpTo(Certificates, MaxChain), damage \in Damages :
          /\ form # "signed" => chain = <<>>
          /\ sent = [form |-> form, chain |-> chain, damage |-> damage]
          /\ p7 = P7Text(form, chain, damage)
    /\ decoded = None
    /\ key = None /\ KeyRest /\ MintRest /\ CsrRest /\ WizRest /\ StoreRest
    /\ ScreenRest
NextChain == Decode
SpecChain == InitChain /\ [][NextChain]_vars

\* the minting of assertions by a generated identity
InitMint ==
    /\ \E k \in 1..MaxKeys : key = RSAPrivateKey(k)
    /\ KeyRest /\ ChainRest /\ MintRest /\ CsrRest /\ WizRest /\ StoreRest
    /\ ScreenRest
NextMint == Tick \/ MintGrant \/ MintClientAuth
SpecMint == InitMint /\ [][NextMint]_vars

\* certificate signing requests of generated identities
InitCsr ==
    /\ \E k \in 1..MaxKeys : key = RSAPrivateKey(k)
    /\ KeyRest /\ ChainRest /\ MintRest /\ CsrRest /\ WizRest /\ StoreRest
    /\ ScreenRest
NextCsr == Generate \/ CreateCsr
SpecCsr == InitCsr /\ [][NextCsr]_vars

\* the answers of the service in one run, and the rows already stored
Services ==
    {[eta |-> eta, ready |-> ready, payload |-> payload] :
       eta \in 0..MaxEta, ready \in BOOLEAN, payload \in Payloads}
StoredBefore == {[email |-> "other@domain.com", p12 |-> None]}

\* InitialScreen.compose: identity_select has the emails of the store; it
\* is blank if there is none, else it shows the first
compose_select(rows) ==
    IF rows = {} THEN {[options |-> {}, value |-> BLANK]}
    ELSE {[options |-> DOMAIN get_emails(rows), value |-> first] :
             first \in DOMAIN get_emails(rows)}

\* one run of the wizard
InitWizard ==
    /\ key = None /\ KeyRest /\ ChainRest /\ MintRest /\ CsrRest /\ StoreRest
    /\ ScreenRest
    /\ pc = [a \in Attempts |-> "idle"]
    /\ locals = [a \in Attempts |-> NoLocals]
    /\ outcome = [a \in Attempts |-> None]
    /\ path = [a \in Attempts |-> <<>>]
    /\ calls = [a \in Attempts |-> <<>>]
    /\ loading = FALSE
    /\ store \in {{}, StoredBefore}
    /\ select \in compose_select(store)
    /\ service \in Services
NextWizard == Run(1) \/ PasswordChanged \/ IdentitySelected
SpecWizard == InitWizard /\ [][NextWizard]_vars

\* the store, empty when the database file is made
InitStore ==
    /\ key = None /\ KeyRest /\ ChainRest /\ MintRest /\ CsrRest /\ WizRest
    /\ StoreRest /\ ScreenRest
NextStore == Insert \/ GetIdentity \/ GetEmails
SpecStore == InitStore /\ [][NextStore]_vars

\* two runs of the wizard at once: the action is a worker that is not
\* exclusive, so a second run can start while the first is under way; the
\* service answers with the one envelope of two certificates
InitWizards ==
    /\ InitWizard
    /\ store = {}
    /\ service.eta = 1
    /\ service.payload = [form |-> "signed",
                          chain |-> <<LeafCertificate, SubCaCertificate>>,
                          damage |-> "none"]
NextWizards == \E a \in Attempts : Run(a)
SpecWizards == InitWizards /\ [][NextWizards]_vars

---------------------------------------------------------------------------
(* The key round trip (SpecKeys).                                          *)

\* the last import was given the very blob the last export returned
ImportedTheExport ==
    imported # None /\ exported.kind = "Ok" /\ imported.blob = exported.blob
\* the last import was given that blob or a damaged copy of it
ImportedFromTheExport == imported # None /\ exported.kind = "Ok"

\* C1: importing with password P the blob that exporting identity I with P
\* returned yields an Identity whose public key equals I's public key.
C1_RoundTrip ==
    (ImportedTheExport /\ imported.password = exportPw)
    => /\ imported.result.kind = "Identity"
       /\ public_key(imported.result.key) = public_key(key)

C1_Witness ==
    /\ ImportedTheExport /\ imported.password = exportPw
    /\ imported.result.kind = "Identity"
    /\ imported.result.key.id = MaxKeys

\* the exception load_pem_private_key raises for a failed decryption
DecryptionFailed == "ValueError"

\* C2 as stated: importing the exported blob with a password other than P, or
\* importing a corrupted copy of it, fails with the one error kind
\* DecryptionFailed and returns no Identity.
C2_Original ==
    (ImportedFromTheExport
     /\ (imported.password # exportPw \/ imported.blob # exported.blob))
    => /\ imported.result.kind = "Error"
       /\ imported.result.error = DecryptionFailed

\* C2 as amended: such an import never returns an Identity; it fails with
\* ValueError when the password given is not empty or the PEM frame is
\* unreadable, and with TypeError when the password given is empty and the blob
\* is still readable as an encrypted PEM.
C2_WrongPasswordFails ==
    (ImportedFromTheExport
     /\ (imported.password # exportPw \/ imported.blob # exported.blob))
    => /\ imported.result.kind = "Error"
       /\ imported.result.error =
            IF imported.password = "" /\ imported.blob.framed
            THEN "TypeError" ELSE DecryptionFailed

C2_Witness ==
    /\ ImportedTheExport
    /\ imported.password # exportPw /\ imported.password # ""
    /\ imported.result.kind = "Error" /\ imported.result.error = "ValueError"

---------------------------------------------------------------------------
(* The assertions (SpecMint).                                              *)

Minted == {r \in {grant, clientAuth} : r # None}

\* C3: every minted assertion has exp - nbf = 3600 exactly, whenever the clock
\* is read.
C3_ExpiryExact ==
    \A r \in Minted : r.token.payload.exp - r.token.payload.nbf = AssertionLifetime

\* uppercase hexadecimal, digit by digit
UpperHexDigits == <<"0","1","2","3","4","5","6","7","8","9","A","B","C","D","E","F">>
IsUpperHexOf(text, bytes) ==
    /\ Len(text) = 2 * Len(bytes)
    /\ \A i \in 1..Len(bytes) :
         /\ text[2 * i - 1] = UpperHexDigits[(bytes[i] \div 16) + 1]
         /\ text[2 * i] = UpperHexDigits[(bytes[i] % 16) + 1]

\* C4: the header kid of every minted assertion is the SHA-1 fingerprint of
\* the certificate passed in, in uppercase hex (E145 for the leaf fixture), and
\* x5c is a list of exactly one element that base64-decodes to exactly the
\* certificate's DER bytes.
C4_HeaderCorrect ==
    \A r \in Minted :
       /\ IsUpperHexOf(r.token.header.kid, fingerprint(r.certificate))
       /\ r.certificate = LeafCertificate => r.token.header.kid = <<"E", "1", "4", "5">>
       /\ Len(r.token.header.x5c) = 1
       /\ standard_b64decode(r.token.header.x5c[1])
            = [kind |-> "Ok", bytes |-> r.certificate.der]

C4_Witness ==
    /\ grant # None /\ clientAuth # None
    /\ clientAuth.certificate = LeafCertificate
    /\ clientAuth.token.header.kid[1] = "E"
    /\ grant.certificate = SubCaCertificate

\* the issuer URL written out for the fixtures
IssuerFixture(certificate) ==
    CASE certificate = LeafCertificate -> "https://ausidapp.gov.au/171"
      [] certificate = SubCaCertificate -> "https://ausidapp.gov.au/10"
      [] certificate = RootCertificate -> "https://ausidapp.gov.au/7"

\* C5: in an authorization grant iss is the issuer host URL followed by the
\* certificate's serial number, sub is the email passed in, aud is the fixed
\* token endpoint, and the token is signed with RS256 by the identity's own
\* private key.
C5_GrantClaims ==
    grant # None
    => /\ grant.token.payload.iss = IssuerFixture(grant.certificate)
       /\ grant.token.payload.sub = grant.email
       /\ grant.token.payload.aud = "https://myGovId.gov.au/connect/token"
       /\ grant.token.header.alg = "RS256"
       /\ grant.token.signature = [alg |-> "RS256", key |-> key]

C5_Witness ==
    /\ grant # None /\ grant.certificate = LeafCertificate
    /\ grant.token.payload.sub = "other@domain.com"
    /\ key.id = MaxKeys

SameCall(g, c) ==
    /\ g.key = c.key /\ g.certificate = c.certificate
    /\ IntTime(g.reads[1]) = IntTime(c.reads[1])
    /\ IntTime(g.reads[2]) = IntTime(c.reads[2])

\* C6: for the same identity, certificate and clock readings the client
\* authentication and the authorization grant differ only in sub (and jti):
\* iss, aud, nbf, exp, the algorithm and the headers are the same, and the
\* client authentication's sub equals its own iss.
C6_VariantsDifferInSub ==
    /\ clientAuth # None
       => /\ clientAuth.token.payload.sub = clientAuth.token.payload.iss
          /\ clientAuth.token.payload.iss = IssuerFixture(clientAuth.certificate)
    /\ (grant # None /\ clientAuth # None /\ SameCall(grant, clientAuth))
       => /\ \A f \in {"iss", "aud", "nbf", "exp"} :
               grant.token.payload[f] = clientAuth.token.payload[f]
          /\ DOMAIN grant.token.payload = DOMAIN clientAuth.token.payload
          /\ grant.token.header = clientAuth.token.header
          /\ grant.token.signature = clientAuth.token.signature
          /\ grant.token.payload.sub = grant.email
          /\ grant.token.payload.sub # clientAuth.token.payload.sub

C6_Witness ==
    /\ grant # None /\ clientAuth # None /\ SameCall(grant, clientAuth)
    /\ grant.reads # clientAuth.reads
    /\ grant.token.payload.nbf > 0

\* C7: every assertion returned carries a jti that no earlier assertion
\* carried, and returning it leaves the identity as it was: nothing of the
\* assertion is kept.
C7_FreshJti ==
    [][jtiLog' # jtiLog
       => /\ Len(jtiLog') = Len(jtiLog) + 1
          /\ \A i \in 1..Len(jtiLog) : jtiLog[i] # jtiLog'[Len(jtiLog')]
          /\ UNCHANGED keyVars]_vars

C7_Witness ==
    /\ Len(jtiLog) = MaxUuids
    /\ grant # None /\ clientAuth # None
    /\ grant.token.payload.jti # clientAuth.token.payload.jti

---------------------------------------------------------------------------
(* The certificate chain (SpecChain).                                      *)

SameDer(chain, issued) ==
    /\ Len(chain) = Len(issued)
    /\ \A i \in 1..Len(issued) : chain[i].der = issued[i].der

\* C8: decode_certificate_chain returns the certificates of the envelope in
\* the order the issuer supplied them, element i being the i-th certificate
\* sent with the same DER bytes; for the three-certificate fixture index 0 is
\* the leaf and the last element is the self-signed root.
C8_OrderPreserved ==
    decoded # None
    => /\ decoded.kind = "Ok" => SameDer(decoded.chain, sent.chain)
       /\ (sent.form = "signed" /\ sent.damage = "none") => decoded.kind = "Ok"
       /\ (sent.damage = "none"
           /\ sent.chain = <<LeafCertificate, SubCaCertificate, RootCertificate>>)
          => /\ decoded.kind = "Ok"
             /\ decoded.chain[1].subject = 1
             /\ decoded.chain[3].subject = decoded.chain[3].issuer

C8_Witness ==
    /\ decoded # None /\ decoded.kind = "Ok"
    /\ sent.chain = <<LeafCertificate, SubCaCertificate, RootCertificate>>
    /\ decoded.chain[1] = LeafCertificate

\* text that is base64 as RFC 4648 defines it
IsBase64(text) ==
    /\ Len(text) % 4 = 0
    /\ \A i \in 1..Len(text) :
         \/ IndexOf(B64Alphabet, text[i]) # 0
         \/ text[i] = "=" /\ i >= Len(text) - 1 /\ text[Len(text)] = "="

\* C9 as stated: whenever p7 is not valid base64, or its bytes are no PKCS#7
\* SignedData, decode_certificate_chain fails and returns no chain.
C9_Original ==
    (decoded # None
     /\ (~IsBase64(p7) \/ sent.form = "data"
         \/ sent.damage \in {"lastByteLost", "garbled"}))
    => decoded.kind = "Error"

\* C9 as amended: decode_certificate_chain fails, and returns no chain, not
\* even a partial one, whenever base64 decoding fails (binascii.Error) or the
\* decoded bytes are no PKCS#7 SignedData (ValueError, or UnsupportedAlgorithm
\* for a PKCS#7 structure of another content type); characters outside the
\* base64 alphabet are skipped, so a p7 with such characters in an otherwise
\* sound envelope decodes to the chain.
C9_MalformedFails ==
    decoded # None
    => /\ sent.damage = "lastCharLost"
          => decoded = [kind |-> "Error", error |-> "binascii.Error"]
       /\ sent.damage \in {"lastByteLost", "garbled", "notBase64"}
          => decoded = [kind |-> "Error", error |-> "ValueError"]
       /\ (sent.form = "data" /\ sent.damage \in {"none", "junk", "lineBreaks"})
          => decoded = [kind |-> "Error", error |-> "UnsupportedAlgorithm"]
       /\ (sent.form = "signed" /\ sent.damage \in {"junk", "lineBreaks"})
          => /\ decoded.kind = "Ok"
             /\ SameDer(decoded.chain, sent.chain)
       /\ decoded.kind = "Error" => DOMAIN decoded = {"kind", "error"}

C9_Witness ==
    /\ decoded # None /\ decoded.kind = "Error"
    /\ sent.damage = "garbled" /\ Len(sent.chain) = 2

\* C10: decode_certificate_chain never returns an empty chain: an envelope
\* that parses but holds zero certificates is an error, so every chain
\* returned has a leaf at index 0.
C10_NeverEmpty ==
    (decoded # None /\ decoded.kind = "Ok") => Len(decoded.chain) > 0

---------------------------------------------------------------------------
(* The certificate signing request (SpecCsr).                              *)

\* the value of the subject attribute oid of the request behind a body
SubjectValues(body, oid) ==
    LET subject == body.p10.request.subject IN
    {subject[i].value : i \in {j \in 1..Len(subject) : subject[j].oid = oid}}

FixedAttributes ==
    {NameOID.COMMON_NAME, NameOID.ORGANIZATION_NAME, NameOID.COUNTRY_NAME}

\* C11: any two create_csr calls of one identity produce requests with the
\* same common name ("poi id"), organisation ("mygovid.gov.au") and country
\* ("AU") and the same single non-critical extension (OID 1.2.36.1.333.1
\* with the same value); their DN qualifiers differ, and the DN qualifier
\* is the only subject attribute that differs.
C11_OnlyQualifierDiffers ==
    \A i, j \in 1..Len(csrLog) :
       (i < j /\ csrLog[i].key = csrLog[j].key) =>
          LET a == csrLog[i].body  b == csrLog[j].body IN
          /\ SubjectValues(a, NameOID.COMMON_NAME) = {"poi id"}
          /\ SubjectValues(a, NameOID.ORGANIZATION_NAME) = {"mygovid.gov.au"}
          /\ SubjectValues(a, NameOID.COUNTRY_NAME) = {"AU"}
          /\ \A oid \in FixedAttributes :
                SubjectValues(a, oid) = SubjectValues(b, oid)
          /\ Len(a.p10.request.subject) = 4 /\ Len(b.p10.request.subject) = 4
          /\ Len(a.p10.request.extensions) = 1
          /\ a.p10.request.extensions = b.p10.request.extensions
          /\ a.p10.request.extensions[1].oid = "1.2.36.1.333.1"
          /\ ~a.p10.request.extensions[1].critical
          /\ Cardinality(SubjectValues(a, NameOID.DN_QUALIFIER)) = 1
          /\ Cardinality(SubjectValues(b, NameOID.DN_QUALIFIER)) = 1
          /\ SubjectValues(a, NameOID.DN_QUALIFIER)
                # SubjectValues(b, NameOID.DN_QUALIFIER)

\* one identity has made three requests, another identity one in between
C11_Witness ==
    \E i, j, m \in 1..Len(csrLog) :
       /\ i < j /\ j < m
       /\ csrLog[i].key = csrLog[m].key /\ csrLog[j].key # csrLog[i].key
       /\ \E n \in 1..Len(csrLog) : n > m /\ csrLog[n].key = csrLog[i].key

---------------------------------------------------------------------------
(* The export password (SpecKeys).                                         *)

\* the exception export_key raises for a password it does not accept
InvalidArgument == "ValueError"

\* C20 as stated: an export with an empty password fails with
\* InvalidArgument and returns no blob, and an export with any non-empty
\* password succeeds.
C20_Original ==
    exported # None =>
       /\ exportPw = "" =>
             (exported = [kind |-> "Error", error |-> InvalidArgument]
              /\ blob = None)
       /\ exportPw # "" => exported.kind = "Ok"

\* C20, amended: an export with an empty password, or with one of more than
\* 1023 bytes, raises ValueError and returns no blob; an export with a
\* password of 1 to 1023 bytes returns a blob.
C20_ExportPassword ==
    exported # None =>
       /\ (PasswordBytes(exportPw) = 0 \/ PasswordBytes(exportPw) > 1023) =>
             (exported = [kind |-> "Error", error |-> InvalidArgument]
              /\ blob = None)
       /\ PasswordBytes(exportPw) \in 1..1023 =>
             (exported.kind = "Ok" /\ (~corrupted => blob = exported.blob))

\* an export with the empty password has failed
C20_Witness ==
    exported # None /\ exportPw = "" /\ exported.kind = "Error"

---------------------------------------------------------------------------
(* The issuance attempt (SpecWizard).                                      *)

\* the calls of run a to op, by their position in calls[a]
CallsTo(a, op) == {i \in 1..Len(calls[a]) : calls[a][i].op = op}

\* the last call run a made
LastCall(a) == IF calls[a] = <<>> THEN "" ELSE calls[a][Len(calls[a])].op

\* how run a ended
Ended(a, kind) == outcome[a] # None /\ outcome[a].kind = kind
FailedWith(a, cause) == Ended(a, "Failed") /\ outcome[a].cause = cause

\* the issuance state run a was in before it failed
StateBeforeFailure(a) == path[a][Len(path[a]) - 1]

StateOrder ==
    <<"Idle", "RequestBuilt", "Submitted", "Pending", "CertificateFetched",
      "ChainDecoded", "Complete">>

IsPrefix(p, q) == Len(p) <= Len(q) /\ SubSeq(q, 1, Len(p)) = p

\* the DER bytes of the certificates of a chain, in order
Ders(chain) == [i \in 1..Len(chain) |-> chain[i].der]

\* C12: a run in which no step fails passes through the states Idle,
\* RequestBuilt, Submitted, Pending, CertificateFetched, ChainDecoded and
\* Complete in exactly this order, skipping and repeating none, and the
\* chain the identity holds at Complete is the payload's certificates in
\* the payload's order, so its leaf is the first certificate of the payload.
C12_StateOrder ==
    \A a \in Attempts :
       /\ ~Ended(a, "Failed") => IsPrefix(path[a], StateOrder)
       /\ Ended(a, "Failed") =>
             IsPrefix(SubSeq(path[a], 1, Len(path[a]) - 1), StateOrder)
       /\ Ended(a, "Complete") =>
             /\ path[a] = StateOrder
             /\ Ders(locals[a].identity.certificates)
                   = Ders(service.payload.chain)
             /\ service.payload.chain # <<>> =>
                   locals[a].identity.certificates[1].der
                      = service.payload.chain[1].der

\* a run has reached Complete on a payload of two certificates
C12_Witness ==
    /\ Ended(1, "Complete")
    /\ Len(service.payload.chain) = 2
    /\ service.payload.chain[1] = SubCaCertificate

\* C13: get_signed_certificate is never called before the one sleep of
\* eta x 1.5 seconds has run its full time, eta being the eta of the task
\* the same run's submission returned; the run sleeps once and asks for the
\* certificate of that task.
C13_WaitBeforeFetch ==
    \A a \in Attempts : \A i \in CallsTo(a, "get_signed_certificate") :
       /\ i > 2
       /\ calls[a][i - 1].op = "asyncio.sleep"
       /\ calls[a][i - 2].op = "initiate_certificate_signing_task"
       /\ locals[a].task.eta = service.eta
       /\ calls[a][i - 1].arg = 3 * locals[a].task.eta
       /\ locals[a].slept >= 3 * locals[a].task.eta
       /\ calls[a][i].arg = locals[a].task.id
       /\ Cardinality(CallsTo(a, "asyncio.sleep")) = 1

\* a run has asked for the certificate after a sleep of 1.5 seconds or more
C13_Witness ==
    /\ CallsTo(1, "get_signed_certificate") # {}
    /\ locals[1].task.eta >= 1
    /\ locals[1].slept >= 3

\* the exception a cancelled worker sees at its await
Cancelled == "CancelledError"

\* C14: a run that is cancelled while it sleeps ends Failed with the kind
\* Cancelled and has called get_signed_certificate zero times: a run leaves
\* the sleep either by waking up, its time over, or Failed(Cancelled)
\* without a call, and a run cancelled in Pending has never called it.
C14_CancelledInPending ==
    /\ [][\A a \in Attempts :
             (pc[a] = "sleep" /\ pc'[a] # "sleep") =>
                \/ /\ pc'[a] = "get_signed_certificate"
                   /\ locals[a].slept >= 3 * locals[a].task.eta
                   /\ outcome'[a] = None
                \/ /\ pc'[a] = "done"
                   /\ outcome'[a] = [kind |-> "Failed", cause |-> Cancelled]
                   /\ CallsTo(a, "get_signed_certificate") = {}
                   /\ calls'[a] = calls[a]]_vars
    /\ [](\A a \in Attempts :
             (FailedWith(a, Cancelled) /\ LastCall(a) = "asyncio.sleep")
                => /\ StateBeforeFailure(a) = "Pending"
                   /\ CallsTo(a, "get_signed_certificate") = {})

\* a run was cancelled half way through a sleep of three seconds
C14_Witness ==
    /\ FailedWith(1, Cancelled)
    /\ LastCall(1) = "asyncio.sleep"
    /\ locals[1].task.eta = 2 /\ locals[1].slept = 3

\* the envelope of the service holds no certificate the decoder can return
BadPayload ==
    \/ service.payload.chain = <<>>
    \/ service.payload.form # "signed"
    \/ service.payload.damage # "none"

\* C15: whenever a step of a run fails, a malformed or empty chain
\* included, the run moves to Failed with the error of that step as its
\* cause and no later step runs: a run that is Failed is over, and a run
\* that processed a response with a malformed or empty chain is Failed,
\* the processing its last step.
C15_FailureEndsAttempt ==
    \A a \in Attempts :
       /\ Ended(a, "Failed") => pc[a] = "done"
       /\ (BadPayload /\ CallsTo(a, "process_certificate_response") # {}) =>
             /\ Ended(a, "Failed")
             /\ outcome[a].cause \in {"ValueError", "UnsupportedAlgorithm"}
             /\ LastCall(a) = "process_certificate_response"
             /\ StateBeforeFailure(a) = "CertificateFetched"

\* C16: a run builds the signing request once, submits it at most once and
\* asks for the certificate at most once; when the task is not complete
\* after the sleep the run fails and does not ask again.
C16_NoRetry ==
    \A a \in Attempts :
       /\ Cardinality(CallsTo(a, "create_certificate_signing_request")) <= 1
       /\ Cardinality(CallsTo(a, "initiate_certificate_signing_task")) <= 1
       /\ Cardinality(CallsTo(a, "get_signed_certificate")) <= 1
       /\ CallsTo(a, "initiate_certificate_signing_task") # {} =>
             Cardinality(CallsTo(a, "create_certificate_signing_request")) = 1
       /\ (~service.ready /\ CallsTo(a, "get_signed_certificate") # {}
           /\ pc[a] # "get_signed_certificate") =>
             /\ Ended(a, "Failed")
             /\ LastCall(a) = "get_signed_certificate"

\* the task was not complete when the run asked, and the run has failed
C16_Witness ==
    /\ ~service.ready
    /\ FailedWith(1, "ResponseError")
    /\ Cardinality(CallsTo(1, "get_signed_certificate")) = 1

\* the rows of the store that hold the identity of run a
RowsOf(a) ==
    {row \in store : row.p12 # None /\ locals[a].identity # None
                     /\ row.p12.key = locals[a].identity.key}

\* insert was called only after the certificate was asked for and
\* processed, the personal details posted and a password chosen
InsertComesLast(a) ==
    \A i \in CallsTo(a, "insert") :
       /\ \E f, p, d \in 1..Len(calls[a]) :
             /\ f < p /\ p < d /\ d < i
             /\ calls[a][f].op = "get_signed_certificate"
             /\ calls[a][p].op = "process_certificate_response"
             /\ calls[a][d].op = "post_personal_details"
       /\ calls[a][i].arg[2] \in ChosenPasswords
       /\ locals[a].identity.processed

\* C17 as stated: in every run that fails or is cancelled at any step
\* IdentityStore.insert is never called, and insert is called only after
\* the certificate was fetched and processed, the details posted and a
\* password chosen.
C17_Original ==
    \A a \in Attempts :
       /\ (Ended(a, "Failed") \/ Ended(a, "Abandoned")) =>
             CallsTo(a, "insert") = {}
       /\ InsertComesLast(a)

\* C17, amended: insert is called at most once, only after the certificate
\* was fetched and processed, the details posted and a password chosen; a
\* run that is abandoned, or fails or is cancelled before the password is
\* chosen, never calls it; a run that fails after it called insert failed
\* in the insert itself, leaving no row, or was cancelled at the
\* CompleteScreen, its row holding the key and the processed certificates.
C17_InsertLast ==
    \A a \in Attempts :
       /\ Cardinality(CallsTo(a, "insert")) <= 1
       /\ InsertComesLast(a)
       /\ Ended(a, "Abandoned") => CallsTo(a, "insert") = {}
       /\ CallsTo(a, "insert") = {} => RowsOf(a) = {}
       /\ (Ended(a, "Failed") /\ CallsTo(a, "insert") # {}) =>
             /\ LastCall(a) = "insert"
             /\ \/ outcome[a].cause = "IntegrityError" /\ RowsOf(a) = {}
                \/ outcome[a].cause = Cancelled /\ RowsOf(a) # {}
       /\ \A row \in RowsOf(a) :
             /\ row.email = locals[a].identity.email
             /\ row.p12.certificates = locals[a].identity.certificates

\* a run failed while it posted the personal details: nothing was stored
C17_Witness ==
    /\ FailedWith(1, "TransportError")
    /\ LastCall(1) = "post_personal_details"
    /\ CallsTo(1, "insert") = {} /\ RowsOf(1) = {}

\* a step that ends run a in Failed: its worker is cancelled or the request
\* it waits for fails
FailingStep(a) ==
    /\ Cancel(a) \/ NetworkFails(a)
    /\ pc'[a] = "done" /\ outcome'[a].kind = "Failed"

---------------------------------------------------------------------------
(* Two runs at once (SpecWizards).                                         *)

\* run a is under way
InProgress(a) == pc[a] \in Awaits

\* C19: two runs under way at once share no mutable state: each has an
\* identity with a key of its own and a signing task of its own, whose
\* certificate it asks for, and no step of one run overwrites what the
\* other has set, the loading flag of the screen (set while a run is under
\* way) and the selection a run has made for its new identity included.
C19_NoSharedState ==
    \A a \in Attempts :
       /\ \A b \in Attempts \ {a} :
             /\ (locals[a].identity # None /\ locals[b].identity # None) =>
                   locals[a].identity.key # locals[b].identity.key
             /\ (locals[a].task # None /\ locals[b].task # None) =>
                   locals[a].task.id # locals[b].task.id
       /\ \A i \in CallsTo(a, "get_signed_certificate") :
             calls[a][i].arg = locals[a].task.id
       /\ InProgress(a) => loading
       /\ pc[a] = "CompleteScreen" => select.value = locals[a].identity.email

---------------------------------------------------------------------------
(* Keys of another type (SpecKeys).                                        *)

\* the exception from_exported_key raises for a key that is not an RSA key
MalformedKeyMaterial == "AssertionError"

\* the last import was given a readable file that opens under the password
\* of the import and holds a key that is not an RSA key
ImportedAnotherKeyType ==
    /\ imported # None
    /\ imported.blob.framed /\ ~imported.blob.body.damaged
    /\ imported.blob.body.sealedWith
          = <<imported.password, imported.blob.dekInfo.iv>>
    /\ imported.blob.label # "RSA PRIVATE KEY"

\* C21: importing a blob that decrypts and parses but holds a key that is
\* not an RSA key fails with AssertionError (MalformedKeyMaterial), which is
\* not the error of a failed decryption, and returns no Identity.
C21_NonRsaRejected ==
    ImportedAnotherKeyType =>
       /\ imported.result = [kind |-> "Error", error |-> MalformedKeyMaterial]
       /\ MalformedKeyMaterial # DecryptionFailed

\* an elliptic curve key file was imported with its password
C21_Witness ==
    ImportedAnotherKeyType /\ imported.blob.label = "EC PRIVATE KEY"

---------------------------------------------------------------------------
(* The store keeps what it was given (SpecStore).                          *)

\* the last insert stored its identity
InsertedOk == inserted # None /\ inserted.result.kind = "Ok"

\* the last query read back, with the password of the last insert, the email
\* that insert stored
ReadBack ==
    /\ InsertedOk /\ answer # None /\ answer.op = "get_identity"
    /\ answer.email = inserted.identity.email
    /\ answer.password = inserted.password

\* the last query listed the emails after an insert that stored its identity
ListedAfter == InsertedOk /\ answer # None /\ answer.op = "get_emails"

\* the step is a call of get_identity or get_emails (an insert clears answer)
Queried == answer' # None

\* C22: after insert(identity, password) has stored an identity,
\* get_identity with its email and that password returns an identity with
\* the key of the inserted one and get_emails lists the email exactly once;
\* get_identity and get_emails leave the rows of the table as they are.
C22_StoreRoundTrip ==
    /\ [](/\ ReadBack =>
                /\ answer.result.kind = "Ok"
                /\ answer.result.identity.key = inserted.identity.key
          /\ ListedAfter =>
                /\ inserted.identity.email \in DOMAIN answer.result.emails
                /\ answer.result.emails[inserted.identity.email] = 1)
    /\ [][Queried => store' = store]_vars

\* an identity was stored, and read back or listed, next to another one
C22_Witness ==
    /\ ReadBack \/ ListedAfter
    /\ Cardinality(store) = 2

---------------------------------------------------------------------------
(* An email is stored once (SpecStore).                                    *)

\* the step is a call of insert
Inserting == answer' = None /\ inserted' # None

\* the last insert was refused because its email has a row
InsertRefused ==
    /\ inserted # None
    /\ inserted.result = [kind |-> "Error", error |-> "IntegrityError"]

\* C29: an insert of an identity whose email has a row in the table ends
\* with an error and leaves the rows as they are, so a stored identity is
\* never overwritten; no email is in two rows, and get_emails never has an
\* email twice.
C29_NoOverwrite ==
    /\ [][(Inserting /\ inserted'.identity.email \in DOMAIN get_emails(store))
             => (inserted'.result.kind = "Error" /\ store' = store)]_vars
    /\ [](/\ \A email \in DOMAIN get_emails(store) :
                get_emails(store)[email] = 1
          /\ (answer # None /\ answer.op = "get_emails") =>
                \A email \in DOMAIN answer.result.emails :
                    answer.result.emails[email] = 1)

\* an insert with a usable password was refused for an email whose row
\* holds another key
C29_Witness ==
    /\ InsertRefused
    /\ inserted.password # ""
    /\ \E row \in store :
          /\ row.email = inserted.identity.email
          /\ row.p12.key # inserted.identity.key

---------------------------------------------------------------------------
(* The Sign In button of the InitialScreen (SpecWizard).                   *)

\* C23: the Sign In button is enabled exactly when the password input is not
\* empty; whatever was typed and selected, it is disabled while the password
\* is empty.
C23_SignInNeedsPassword ==
    sign_in_button.disabled <=> password_input = ""

---------------------------------------------------------------------------
(* The Next button of the PersonalDetailsScreen (SpecWizard).              *)

\* one of the five inputs of the screen is empty
SomeInputEmpty(screen) == \E input \in DetailsInputs : screen[input] = <<>>

\* the last button of run a was Next on the PersonalDetailsScreen
PressedNextOnDetails(a) ==
    /\ pressed[a] # <<>>
    /\ pressed[a][Len(pressed[a])]
          = [screen |-> "PersonalDetailsScreen", button |-> "next"]

\* C24: while one of the five inputs of the PersonalDetailsScreen is empty
\* the Next button is disabled, whatever was typed before; so Next is never
\* followed by a ValueError from int() of a date input.
C24_NextNeedsAllFive ==
    \A a \in Attempts :
       /\ (details[a] # None /\ SomeInputEmpty(details[a]))
             => details[a].next_button.disabled
       /\ ~(PressedNextOnDetails(a) /\ FailedWith(a, "ValueError"))

---------------------------------------------------------------------------
(* Cancel on a screen of the wizard (SpecWizard).                          *)

\* the screens whose Cancel button dismisses them with None
CancelScreens ==
    {"TermsOfUseScreen", "EmailAddressScreen", "PersonalDetailsScreen",
     "PasswordScreen"}

\* the last button of run a was Cancel on one of these screens
CancelledOnScreen(a) ==
    /\ pressed[a] # <<>>
    /\ pressed[a][Len(pressed[a])].button = "cancel"
    /\ pressed[a][Len(pressed[a])].screen \in CancelScreens

\* in this step the user presses Cancel on one of these screens of run a
CancelsOnScreen(a) ==
    /\ pc[a] \in CancelScreens
    /\ pressed'[a] = Append(pressed[a], [screen |-> pc[a], button |-> "cancel"])

\* C25: Cancel on the terms-of-use, email-address, personal-details or
\* password screen ends the run in that step with loading False; the step
\* and every later one make no call and leave the store as it is, and the
\* run has not inserted anything.
C25_CancelReturnsAtOnce ==
    /\ [][\A a \in Attempts :
             /\ CancelsOnScreen(a) =>
                   /\ pc'[a] = "done" /\ loading' = FALSE
                   /\ calls' = calls /\ store' = store
             /\ CancelledOnScreen(a) => (calls' = calls /\ store' = store)]_vars
    /\ [](\A a \in Attempts :
             CancelledOnScreen(a) =>
                /\ Ended(a, "Abandoned") /\ ~loading
                /\ CallsTo(a, "insert") = {})

\* the run was cancelled on the PasswordScreen, its last screen with Cancel
C25_Witness ==
    /\ CancelledOnScreen(1)
    /\ pressed[1][Len(pressed[1])].screen = "PasswordScreen"

---------------------------------------------------------------------------
(* Cancel on the EmailVerificationScreen (SpecWizard).                     *)

\* run a had this button pressed on its EmailVerificationScreen
PressedOnVerification(a, button) ==
    \E i \in 1..Len(pressed[a]) :
       pressed[a][i] = [screen |-> "EmailVerificationScreen",
                        button |-> button]

\* C26: after Cancel on the EmailVerificationScreen the run returns and has
\* made no call of complete_email_verification_task; a run that has made
\* that call had Next pressed, and the code it sent is not empty.
C26_CancelSubmitsNothing ==
    \A a \in Attempts :
       /\ PressedOnVerification(a, "cancel") =>
             /\ Ended(a, "Abandoned")
             /\ CallsTo(a, "complete_email_verification_task") = {}
       /\ \A i \in CallsTo(a, "complete_email_verification_task") :
             /\ PressedOnVerification(a, "next")
             /\ calls[a][i].arg[3] # ""

---------------------------------------------------------------------------
(* The loading flag after a run (SpecWizard).                              *)

\* C27: when the run of action_create_new_identity has ended, in whatever
\* way (completed, abandoned on a screen, failed on a call or on decoding,
\* cancelled), loading is False.
C27_LoadingReset ==
    \A a \in Attempts : pc[a] = "done" => ~loading

---------------------------------------------------------------------------
(* The order of the remote steps of a run (SpecWizard).                    *)

\* run a has called op
HasCalled(a, op) == CallsTo(a, op) # {}

\* the user accepted the terms of run a
TermsAccepted(a) ==
    \E i \in 1..Len(pressed[a]) :
       pressed[a][i] = [screen |-> "TermsOfUseScreen", button |-> "next"]

\* the remote calls of a run, in the order of the protocol
ProtocolOrder ==
    <<"get_terms_and_conditions", "initiate_proof_of_identity_process",
      "initiate_email_verification_task", "complete_email_verification_task",
      "initiate_certificate_signing_task", "get_signed_certificate",
      "post_personal_details">>

\* the remote calls run a has made, in the order it made them
RemoteCalls(a) ==
    SelectSeq(calls[a], LAMBDA c : \E i \in 1..Len(ProtocolOrder) :
                                       c.op = ProtocolOrder[i])

\* C28: within a run a remote step is taken only when the one before it has
\* given its result: the process is initiated only after the terms were
\* accepted, the email verification task only when the process is there,
\* the code is sent only when that task is there, the signing request only
\* when the verification result (the assurance token) is there, the
\* certificate is asked for only when the signing task is there, and the
\* personal details are posted only when the certificate response (the
\* credential token) is there; the calls are made in the protocol's order,
\* each once.
C28_ProtocolOrder ==
    \A a \in Attempts :
       /\ HasCalled(a, "initiate_proof_of_identity_process")
             => TermsAccepted(a)
       /\ HasCalled(a, "initiate_email_verification_task")
             => locals[a].processId # None
       /\ HasCalled(a, "complete_email_verification_task")
             => locals[a].email_verification_task # None
       /\ HasCalled(a, "initiate_certificate_signing_task")
             => locals[a].email_verification_result # None
       /\ HasCalled(a, "get_signed_certificate")
             => locals[a].task # None
       /\ HasCalled(a, "post_personal_details")
             => locals[a].certificate_response # None
       /\ \A i \in 1..Len(RemoteCalls(a)) :
             RemoteCalls(a)[i].op = ProtocolOrder[i]

\* a run has posted the personal details, the last remote step
C28_Witness == HasCalled(1, "post_personal_details")

=============================================================================
